---------------------------- MODULE Spec2Model ----------------------------
(***************************************************************************)
(* A model of the run-file composition core of imod-python:                *)
(*   - the path codec            imod/util.py  compose / decompose         *)
(*   - the key parser            imod/run.py   _parse                      *)
(*   - the time discretisation   imod/run.py   _time_discretisation        *)
(*   - the path expander         imod/run.py   _get_system, _get_wel,      *)
(*                                             _get_period                 *)
(*                                                                         *)
(* Strings are sequences of symbols.  A symbol is a one-character string,  *)
(* or a word without any separator character ("riv", "stage") where only   *)
(* the separators "-", "_" and "." of the string matter to the code.       *)
(* A Python dict is a function whose domain is the set of its keys; an     *)
(* OrderedDict is a sequence of <<key, value>> pairs.  A call that raises  *)
(* returns [ok |-> FALSE].                                                 *)
(***************************************************************************)
EXTENDS Integers, Sequences, FiniteSets, TLC

VARIABLES
    parts,        \* codec: the parts record as the caller built it
    d,            \* codec: the dict object handed to compose (compose writes to it)
    path,         \* codec: what compose returned
    decomposed,   \* codec: what decompose returned
    codec_pc,     \* codec: "start" | "composed" | "decomposed"
    key,          \* parser: the key handed to _parse
    schema,       \* the schema handed to _parse and to _get_period
    parsed,       \* parser: what _parse returned
    parse_pc,     \* parser: "start" | "done"
    times,        \* the global times (a sorted sequence), <<>> when there are none
    discretised,  \* what _time_discretisation returned
    time_pc,      \* discretiser: "start" | "done"
    package,      \* expander: the entries of one package, in model order
    period_data,  \* expander: what _get_period returned
    period_pc,    \* expander: "start" | "done"
    model,        \* the model mapping of the caller: entries [key, data] in order
    seawat,       \* bounds: the seawat flag handed to _data_bounds
    bounds,       \* bounds: what _data_bounds returned
    bounds_pc,    \* bounds: "start" | "done"
    model_before, \* runfile: the model mapping as the caller built it
    default_output, \* runfile: the dict object default_runfile["output"]
    results,      \* runfile: the results returned so far, each with the model
                  \* it was made from and the output dict as it was returned
    run_fn,       \* runfile: the function called last
    run_last,     \* runfile: what that call did
    hash_seed,    \* runfile: the hash seed of the process
    run_calls,    \* runfile: the number of calls of get_runfile so far
    group_kwargs, \* group: the systems handed to PackageGroup(**kwargs)
    group,        \* group: the PackageGroup object, or what its construction raised
    rendered,     \* group: what render returned
    group_pc,     \* group: "start" | "built" | "rendered"
    seawat_items, \* group: the entries (key, package) of a SeawatModel
    package_groups, \* group: what SeawatModel._group returned for them
    sims,         \* mf6: the Modflow6Simulation objects, in order of creation
    objects,      \* mf6: the package and model objects the simulations hold
    sim_log,      \* mf6: the calls of write and run so far, with what they did
    split_last,   \* mf6: the last split: the original as it was before, and
                  \* the simulation returned
    sim_calls,    \* mf6: the number of calls so far
    cache_file,   \* caching: the content of the package file on disk
    cache_pkg,    \* caching: the package object loaded from the file, if any
    cache_store,  \* caching: the entries of the cache directory
    cache_log     \* caching: the calls of _max_active_n so far

codec_vars  == <<parts, d, path, decomposed, codec_pc>>
parse_vars  == <<key, schema, parsed, parse_pc>>
time_vars   == <<discretised, time_pc>>
period_vars == <<package, period_data, period_pc>>
bounds_vars == <<seawat, bounds, bounds_pc>>
run_vars    == <<model_before, default_output, results, run_fn, run_last,
                 hash_seed, run_calls>>
model_vars  == <<model, bounds_vars, run_vars>>
group_vars  == <<group_kwargs, group, rendered, group_pc, seawat_items,
                 package_groups>>
sim_vars    == <<sims, objects, sim_log, split_last, sim_calls>>
cache_vars  == <<cache_file, cache_pkg, cache_store, cache_log>>
vars == <<codec_vars, parse_vars, times, time_vars, period_vars, model_vars,
          group_vars, sim_vars, cache_vars>>

Raised == [ok |-> FALSE]
Returned(v) == [ok |-> TRUE, value |-> v]
RaisedWith(e) == [ok |-> FALSE, error |-> e]
\* an assignment: v is evaluated once, and F sees its value
Bind(v, F(_)) == CHOOSE r \in {F(x) : x \in {v}} : TRUE

None == [ok |-> FALSE, none |-> TRUE]

-----------------------------------------------------------------------------
(* Strings                                                                 *)

Digits == <<"0", "1", "2", "3", "4", "5", "6", "7", "8", "9">>

IsDigit(c) == \E i \in 1..10 : Digits[i] = c

DigitVal(c) == (CHOOSE i \in 1..10 : Digits[i] = c) - 1

\* int(s) of a non-empty string of digits
RECURSIVE ParseInt(_)
ParseInt(s) ==
    IF s = <<>> THEN 0
    ELSE 10 * ParseInt(SubSeq(s, 1, Len(s) - 1)) + DigitVal(s[Len(s)])

\* str(n) of a natural number
RECURSIVE NatStr(_)
NatStr(n) ==
    IF n < 10 THEN <<Digits[n + 1]>>
    ELSE NatStr(n \div 10) \o <<Digits[(n % 10) + 1]>>

\* "{}".format(n) of an int
IntStr(n) == IF n < 0 THEN <<"-">> \o NatStr(0 - n) ELSE NatStr(n)

\* n zero-padded to two digits, as strftime's %m %d %H %M %S
Pad2(n) == <<Digits[(n \div 10) + 1], Digits[(n % 10) + 1]>>

\* n zero-padded to four digits, as strftime's %Y of a year 1000..9999
Pad4(n) == Pad2(n \div 100) \o Pad2(n % 100)

\* s.split(sep): the segments between the separators, empty ones kept
RECURSIVE Split(_, _)
Split(s, sep) ==
    IF \A i \in 1..Len(s) : s[i] # sep THEN <<s>>
    ELSE LET i == CHOOSE j \in 1..Len(s) :
                      s[j] = sep /\ \A k \in 1..(j - 1) : s[k] # sep
         IN  <<SubSeq(s, 1, i - 1)>> \o Split(SubSeq(s, i + 1, Len(s)), sep)

\* sep.join(segments)
RECURSIVE Join(_, _)
Join(segments, sep) ==
    IF Len(segments) = 0 THEN <<>>
    ELSE IF Len(segments) = 1 THEN segments[1]
    ELSE segments[1] \o <<sep>> \o Join(Tail(segments), sep)

\* s.rfind(c), 1-based; 0 when c does not occur
RFind(s, c) ==
    IF \A i \in 1..Len(s) : s[i] # c THEN 0
    ELSE CHOOSE i \in 1..Len(s) : s[i] = c /\ \A k \in (i + 1)..Len(s) : s[k] # c

-----------------------------------------------------------------------------
(* Calendar: a datetime is [day, sec, sub]: the proleptic Gregorian         *)
(* ordinal of its date, the second of the day, and the part of a second.    *)

IsLeap(y) == (y % 4 = 0) /\ ((y % 100 # 0) \/ (y % 400 = 0))

DaysInMonth(y, m) ==
    IF m = 2 THEN (IF IsLeap(y) THEN 29 ELSE 28)
    ELSE IF m \in {4, 6, 9, 11} THEN 30 ELSE 31

RECURSIVE DaysBeforeMonth(_, _)
DaysBeforeMonth(y, m) ==
    IF m = 1 THEN 0 ELSE DaysBeforeMonth(y, m - 1) + DaysInMonth(y, m - 1)

DaysBeforeYear(y) ==
    LET p == y - 1 IN 365 * p + (p \div 4) - (p \div 100) + (p \div 400)

\* date(y, m, dd).toordinal()
ToOrdinal(y, m, dd) == DaysBeforeYear(y) + DaysBeforeMonth(y, m) + dd

\* date.fromordinal(n) as <<year, month, day>>
FromOrdinal(n) ==
    LET y == CHOOSE yy \in ((n \div 366) - 1)..((n \div 365) + 1) :
                 DaysBeforeYear(yy) < n /\ n <= DaysBeforeYear(yy + 1)
        r == n - DaysBeforeYear(y)
        m == CHOOSE mm \in 1..12 :
                 DaysBeforeMonth(y, mm) < r
                 /\ r <= DaysBeforeMonth(y, mm) + DaysInMonth(y, mm)
    IN  <<y, m, r - DaysBeforeMonth(y, m)>>

DateTime(y, m, dd, H, M, S) ==
    [day |-> ToOrdinal(y, m, dd), sec |-> 3600 * H + 60 * M + S, sub |-> 0]

\* a <= b on datetimes
TimeLeq(a, b) ==
    \/ a.day < b.day
    \/ a.day = b.day /\ a.sec < b.sec
    \/ a.day = b.day /\ a.sec = b.sec /\ a.sub <= b.sub

\* time.strftime("%Y%m%d%H%M%S"): the part of a second is dropped
Strftime(t) ==
    Bind(FromOrdinal(t.day), LAMBDA ymd :
        Pad4(ymd[1]) \o Pad2(ymd[2]) \o Pad2(ymd[3])
        \o Pad2(t.sec \div 3600) \o Pad2((t.sec % 3600) \div 60) \o Pad2(t.sec % 60))


-----------------------------------------------------------------------------
(* datetime.strptime: the format is a regular expression, one group per     *)
(* directive, each group an ordered list of alternatives; an alternative    *)
(* is a sequence of character classes.                                      *)

D09 == {"0", "1", "2", "3", "4", "5", "6", "7", "8", "9"}
D19 == D09 \ {"0"}

Directive_Y == << <<D09, D09, D09, D09>> >>
Directive_m == << <<{"1"}, {"0", "1", "2"}>>, <<{"0"}, D19>>, <<D19>> >>
Directive_d == << <<{"3"}, {"0", "1"}>>, <<{"1", "2"}, D09>>, <<{"0"}, D19>>,
                  <<D19>>, <<{" "}, D19>> >>
Directive_H == << <<{"2"}, {"0", "1", "2", "3"}>>, <<{"0", "1"}, D09>>, <<D09>> >>
Directive_M == << <<{"0", "1", "2", "3", "4", "5"}, D09>>, <<D09>> >>
Directive_S == << <<{"6"}, {"0", "1"}>>, <<{"0", "1", "2", "3", "4", "5"}, D09>>,
                  <<D09>> >>

\* "%Y%m%d%H%M%S"
FormatDateTime == <<Directive_Y, Directive_m, Directive_d,
                    Directive_H, Directive_M, Directive_S>>
\* "%Y%m%d"
FormatDate == <<Directive_Y, Directive_m, Directive_d>>

\* re.match of the format's expression at position pos: the first match the
\* backtracking search finds, trying the alternatives of group i from alt on
RECURSIVE MatchFrom(_, _, _, _, _)
MatchFrom(s, pos, fmt, i, alt) ==
    IF i > Len(fmt) THEN [ok |-> TRUE, end |-> pos, groups |-> <<>>]
    ELSE IF alt > Len(fmt[i]) THEN [ok |-> FALSE]
    ELSE LET p    == fmt[i][alt]
             fits == /\ pos + Len(p) - 1 <= Len(s)
                     /\ \A k \in 1..Len(p) : s[pos + k - 1] \in p[k]
             rest == IF fits THEN MatchFrom(s, pos + Len(p), fmt, i + 1, 1)
                     ELSE [ok |-> FALSE]
         IN  IF fits /\ rest.ok
             THEN [ok |-> TRUE, end |-> rest.end,
                   groups |-> <<SubSeq(s, pos, pos + Len(p) - 1)>> \o rest.groups]
             ELSE MatchFrom(s, pos, fmt, i, alt + 1)

\* the digits of a matched group (the " [1-9]" day has a leading blank)
GroupInt(g) == ParseInt(SelectSeq(g, IsDigit))

\* datetime.strptime(s, fmt): ValueError when the expression does not match,
\* when unconverted data remains, or when the fields are no valid datetime
Strptime(s, fmt) ==
    LET m == MatchFrom(s, 1, fmt, 1, 1)
    IN  IF ~m.ok \/ m.end # Len(s) + 1 THEN Raised
        ELSE LET y  == GroupInt(m.groups[1])
                 mo == GroupInt(m.groups[2])
                 dd == GroupInt(m.groups[3])
                 H  == IF Len(fmt) > 3 THEN GroupInt(m.groups[4]) ELSE 0
                 M  == IF Len(fmt) > 3 THEN GroupInt(m.groups[5]) ELSE 0
                 S  == IF Len(fmt) > 3 THEN GroupInt(m.groups[6]) ELSE 0
             IN  IF y < 1 \/ dd > DaysInMonth(y, mo) \/ S > 59 THEN Raised
                 ELSE Returned(DateTime(y, mo, dd, H, M, S))

-----------------------------------------------------------------------------
(* pathlib: a Path is the sequence of its components; Path(".") has none.   *)

\* Path(s) of a string without "/"
PathOf(s) == IF s = <<>> \/ s = <<".">> THEN <<>> ELSE <<s>>

\* directory.joinpath(s)
JoinPath(directory, s) == directory \o PathOf(s)

\* path.parent
Parent(p) == IF Len(p) = 0 THEN <<>> ELSE SubSeq(p, 1, Len(p) - 1)

\* path.name
PathName(p) == IF Len(p) = 0 THEN <<>> ELSE p[Len(p)]

\* path.suffix: from the last "." of the name, unless it starts or ends it
Suffix(p) ==
    LET n == PathName(p)
        i == RFind(n, ".")
    IN  IF 1 < i /\ i < Len(n) THEN SubSeq(n, i, Len(n)) ELSE <<>>

\* path.stem
Stem(p) ==
    LET n == PathName(p)
        i == RFind(n, ".")
    IN  IF 1 < i /\ i < Len(n) THEN SubSeq(n, 1, i - 1) ELSE n

-----------------------------------------------------------------------------
(* imod/util.py: compose and decompose                                      *)

HasKey(dict, k) == k \in DOMAIN dict

\* dict[k] = v
SetKey(dict, k, v) == [x \in (DOMAIN dict) \cup {k} |-> IF x = k THEN v ELSE dict[x]]

\* the dict handed to compose, after the call: compose stores the formatted
\* time under "timestr" and the layer as an int
compose_d(dict) ==
    Bind(IF HasKey(dict, "time")
         THEN SetKey(dict, "timestr", Strftime(dict.time)) ELSE dict, LAMBDA d1 :
        IF HasKey(dict, "layer") THEN SetKey(d1, "layer", d1.layer) ELSE d1)

\* a slip: the layer is formatted before the time
compose_s_layer_first(dict) ==
    Bind(compose_d(dict), LAMBDA dd :
        IF HasKey(dict, "layer")
        THEN IF HasKey(dict, "time")
             THEN dd.name \o <<"_", "l">> \o IntStr(dd.layer) \o <<"_">>
                  \o dd.timestr \o dd.extension
             ELSE dd.name \o <<"_", "l">> \o IntStr(dd.layer) \o dd.extension
        ELSE IF HasKey(dict, "time")
             THEN dd.name \o <<"_">> \o dd.timestr \o dd.extension
             ELSE dd.name \o dd.extension)

\* the filename compose formats
compose_s(dict) ==
    Bind(compose_d(dict), LAMBDA dd :
        IF HasKey(dict, "layer")
        THEN IF HasKey(dict, "time")
             THEN dd.name \o <<"_">> \o dd.timestr \o <<"_", "l">>
                  \o IntStr(dd.layer) \o dd.extension
             ELSE dd.name \o <<"_", "l">> \o IntStr(dd.layer) \o dd.extension
        ELSE IF HasKey(dict, "time")
             THEN dd.name \o <<"_">> \o dd.timestr \o dd.extension
             ELSE dd.name \o dd.extension)

\* what compose returns: a Path when there is a directory, else a str
compose(dict) ==
    Bind(compose_s(dict), LAMBDA s :
        IF HasKey(dict, "directory")
        THEN [type |-> "Path", path |-> JoinPath(dict.directory, s)]
        ELSE [type |-> "str", path |-> PathOf(s)])

\* the loop over the parts of the stem: the first part that parses as
\* %Y%m%d%H%M%S, else as %Y%m%d, is the time
RECURSIVE decompose_time(_, _)
decompose_time(stemparts, i) ==
    IF i > Len(stemparts) THEN None
    ELSE LET long  == Strptime(stemparts[i], FormatDateTime)
             short == Strptime(stemparts[i], FormatDate)
         IN  IF long.ok THEN long
             ELSE IF short.ok THEN short
             ELSE decompose_time(stemparts, i + 1)

\* re.compile(r"^l\d+$", re.IGNORECASE).match(s)
decompose_layer_match(s) ==
    /\ Len(s) >= 2
    /\ s[1] \in {"l", "L"}
    /\ \A i \in 2..Len(s) : IsDigit(s[i])

\* a slip: int(parts[-1][1]) instead of int(parts[-1][1:])
decompose_layer_one_digit(stemparts) ==
    LET last == stemparts[Len(stemparts)]
    IN  IF decompose_layer_match(last) THEN Returned(DigitVal(last[2])) ELSE None

\* the layer: the last part of the stem, when it matches
decompose_layer(stemparts) ==
    LET last == stemparts[Len(stemparts)]
    IN  IF decompose_layer_match(last) THEN Returned(ParseInt(Tail(last))) ELSE None

\* decompose(path): the dict of the parts; the assert raises on an empty name
decompose(p) ==
    LET stemparts == Split(Stem(p.path), "_")
        name      == stemparts[1]
        base      == [extension |-> Suffix(p.path), directory |-> Parent(p.path),
                      name |-> name]
        time      == decompose_time(stemparts, 1)
        layer     == decompose_layer(stemparts)
        d1        == IF time.ok THEN SetKey(base, "time", time.value) ELSE base
        d2        == IF layer.ok THEN SetKey(d1, "layer", layer.value) ELSE d1
    IN  IF name = <<>> THEN Raised ELSE Returned(d2)


-----------------------------------------------------------------------------
(* The path codec as a state machine: the caller builds a parts record,     *)
(* composes it, and decomposes the path it got.                             *)

MaxLayer == 12

\* names: plain, a word, layer-like, date-like (8, 14 and 6 digits, the last
\* parsed as year, one-digit month, one-digit day), digits that are no date,
\* with an underscore, empty
CodecNames ==
    { <<"h", "d">>,
      <<"head">>,
      <<"l", "5">>,
      <<"2", "0", "1", "8", "0", "2", "2", "2">>,
      <<"2", "0", "1", "8", "0", "2", "2", "2", "0", "9", "0", "6", "5", "7">>,
      <<"2", "0", "1", "8", "1", "1">>,
      <<"1", "2">>,
      <<"a", "_", "b">>,
      <<"h", "_", "l", "3">>,
      <<>> }

CodecExtensions == { <<".", "i", "d", "f">>, <<".", "i", "p", "f">> }

CodecDirectories == { <<>>, << <<"path">>, <<"to">> >> }

\* layers, the -1 of "the top layer" among them
CodecLayers == {-1, 0, 1, MaxLayer}

\* times: two on a whole second, one half a second later
CodecTimes ==
    { DateTime(2018, 2, 22, 9, 6, 57),
      DateTime(2000, 1, 1, 0, 0, 0),
      [DateTime(2000, 1, 1, 0, 0, 0) EXCEPT !.sub = 5] }

OptionalKey(k, values) == {<<>>} \cup {k :> v : v \in values}

CodecParts ==
    { [name |-> n, extension |-> e] @@ t @@ l @@ dir :
        n \in CodecNames, e \in CodecExtensions,
        t \in OptionalKey("time", CodecTimes),
        l \in OptionalKey("layer", CodecLayers),
        dir \in OptionalKey("directory", CodecDirectories) }

CodecIdle ==
    /\ parts = None /\ d = None /\ path = None /\ decomposed = None
    /\ codec_pc = "idle"

ParseIdle ==
    /\ key = <<>> /\ schema = "none" /\ parsed = None /\ parse_pc = "idle"

TimeIdle ==
    /\ discretised = None /\ time_pc = "idle"

PeriodIdle ==
    /\ package = <<>> /\ period_data = None /\ period_pc = "idle"

BoundsIdle ==
    /\ seawat = FALSE /\ bounds = None /\ bounds_pc = "idle"

RunIdle ==
    /\ model_before = <<>> /\ default_output = <<>> /\ results = <<>>
    /\ run_fn = "none" /\ run_last = None /\ hash_seed = "forward"
    /\ run_calls = 0

ModelIdle == model = <<>> /\ BoundsIdle /\ RunIdle

GroupIdle ==
    /\ group_kwargs = <<>> /\ group = None /\ rendered = None /\ group_pc = "idle"
    /\ seawat_items = <<>> /\ package_groups = None

CacheIdle ==
    /\ cache_file = None /\ cache_pkg = None /\ cache_store = {} /\ cache_log = <<>>

SimIdle ==
    /\ sims = <<>> /\ objects = <<>> /\ sim_log = <<>> /\ split_last = None
    /\ sim_calls = 0

InitCodec ==
    /\ parts \in CodecParts
    /\ d = parts
    /\ path = None
    /\ decomposed = None
    /\ codec_pc = "start"
    /\ times = <<>>
    /\ ParseIdle /\ TimeIdle /\ PeriodIdle /\ ModelIdle /\ GroupIdle /\ SimIdle /\ CacheIdle

\* path = util.compose(d)
Compose ==
    /\ codec_pc = "start"
    /\ path' = compose(d)
    /\ d' = compose_d(d)
    /\ codec_pc' = "composed"
    /\ UNCHANGED <<parts, decomposed, parse_vars, times, time_vars, period_vars,
                   model_vars, group_vars, sim_vars,
                   cache_vars>>

\* decomposed = util.decompose(path)
Decompose ==
    /\ codec_pc = "composed"
    /\ decomposed' = decompose(path)
    /\ codec_pc' = "decomposed"
    /\ UNCHANGED <<parts, d, path, parse_vars, times, time_vars, period_vars,
                   model_vars, group_vars, sim_vars,
                   cache_vars>>

NextCodec == Compose \/ Decompose

SpecCodec == InitCodec /\ [][NextCodec]_vars


-----------------------------------------------------------------------------
(* Claims about the path codec                                              *)

Symbols(s) == {s[i] : i \in 1..Len(s)}

\* a name that strptime reads as a time, under either format
DateLike(s) == Strptime(s, FormatDateTime).ok \/ Strptime(s, FormatDate).ok

\* a parts record {name, layer, extension}: no time, no directory
TimelessParts(p) ==
    /\ DOMAIN p = {"name", "layer", "extension"}
    /\ p.name # <<>>
    /\ "_" \notin Symbols(p.name)

\* C1 as stated: for every record {name, layer, extension} (name non-empty,
\* without "_"), decompose(compose(d)) == d.
C1_RoundTripIsIdentity ==
    (codec_pc = "decomposed" /\ TimelessParts(parts))
        => decomposed = Returned(d)

\* d without the key k
DropKey(dict, k) == [x \in DOMAIN dict \ {k} |-> dict[x]]

\* C1 amended: for every record {name, layer, extension} whose name is
\* non-empty, without "_" and not date-like, decompose(compose(d)) is d with
\* one more key, the directory "."; a negative layer is not read back, and
\* the result then has no layer key.
C1_RoundTripAddsDirectory ==
    (codec_pc = "decomposed" /\ TimelessParts(parts) /\ ~DateLike(parts.name))
        => decomposed =
              Returned(SetKey(IF parts.layer >= 0 THEN d ELSE DropKey(d, "layer"),
                              "directory", <<>>))

C1_Witness ==
    /\ codec_pc = "decomposed"
    /\ TimelessParts(parts) /\ ~DateLike(parts.name) /\ parts.layer = MaxLayer
    /\ decomposed.ok
    /\ decomposed.value.layer = MaxLayer
    /\ decomposed.value.directory = <<>>

\* a well-formed parts record with a time: directory, name, extension, a time
\* on a whole second, optionally a layer
TimedParts(p) ==
    /\ DOMAIN p \in { {"directory", "name", "extension", "time"},
                      {"directory", "name", "extension", "time", "layer"} }
    /\ p.name # <<>>
    /\ "_" \notin Symbols(p.name)
    /\ ~DateLike(p.name)
    /\ ~decompose_layer_match(p.name)
    /\ p.time.sub = 0

\* C2 as stated: for every well-formed record with a time,
\* decompose(compose(p)) has the directory, name, extension, time and layer
\* p had, a layer exactly when p had one, and no other key.
C2_RoundTripWithTime ==
    (codec_pc = "decomposed" /\ TimedParts(parts))
        => decomposed = Returned(parts)

\* the round trip with a time loses nothing but a negative layer: a record
\* whose layer, if any, is not negative comes back as it was
RoundTripWithTimeNonNegativeLayer ==
    (codec_pc = "decomposed" /\ TimedParts(parts)
     /\ (HasKey(parts, "layer") => parts.layer >= 0))
        => decomposed = Returned(parts)


-----------------------------------------------------------------------------
(* imod/run.py: the schemas and _parse                                      *)

stress_period_schema ==
    [ wel |-> [systems |-> TRUE],
      drn |-> [systems |-> TRUE, order |-> <<"cond", "bot">>],
      riv |-> [systems |-> TRUE, order |-> <<"cond", "stage", "bot", "inff">>],
      ghb |-> [systems |-> TRUE, order |-> <<"cond", "head">>],
      rch |-> [systems |-> FALSE],
      chd |-> [systems |-> FALSE] ]

seawat_period_schema ==
    [ wel |-> [systems |-> TRUE, order |-> <<"rate", "conc">>],
      drn |-> [systems |-> TRUE, order |-> <<"bot", "cond", "conc">>],
      riv |-> [systems |-> TRUE,
               order |-> <<"stage", "cond", "bot", "dens", "conc">>],
      ghb |-> [systems |-> TRUE, order |-> <<"head", "cond", "dens", "conc">>],
      rch |-> [systems |-> TRUE, order |-> <<"rate", "conc">>],
      chd |-> [systems |-> TRUE, order |-> <<"head", "conc">>] ]

\* a segment of a key as a schema name or a field name: the word it is
IsWord(seg) == Len(seg) = 1

\* stress_period_schema[name].get("order", False)
OrderOf(sch, name) == IF HasKey(sch[name], "order") THEN sch[name].order ELSE <<>>

\* field in order
InOrder(seg, order) == IsWord(seg) /\ \E i \in 1..Len(order) : order[i] = seg[1]

\* a slip: the popped field is not checked against the order
parse_field_unchecked(dict, rest, order) ==
    IF order = <<>> THEN [ok |-> TRUE, dict |-> dict, rest |-> rest]
    ELSE IF rest = <<>> THEN RaisedWith("ValueError")
    ELSE [ok |-> TRUE, dict |-> SetKey(dict, "field", rest[1]), rest |-> Tail(rest)]

\* if order: field = parts.pop(0), which must be in order
parse_field(dict, rest, order) ==
    IF order = <<>> THEN [ok |-> TRUE, dict |-> dict, rest |-> rest]
    ELSE IF rest = <<>> THEN RaisedWith("ValueError")
    ELSE IF ~InOrder(rest[1], order) THEN RaisedWith("ValueError")
    ELSE [ok |-> TRUE, dict |-> SetKey(dict, "field", rest[1]), rest |-> Tail(rest)]

\* a slip: d["system"] = parts[0] instead of parts.pop(0)
parse_system_not_popped(dict, rest, systems) ==
    IF systems
    THEN IF rest = <<>> THEN [ok |-> TRUE, dict |-> dict, rest |-> rest]
         ELSE [ok |-> TRUE, dict |-> SetKey(dict, "system", rest[1]), rest |-> rest]
    ELSE IF rest # <<>> THEN RaisedWith("ValueError")
    ELSE [ok |-> TRUE, dict |-> dict, rest |-> rest]

\* if the package has systems: system = parts.pop(0), if there is a part;
\* else the parts must be used up
parse_system(dict, rest, systems) ==
    IF systems
    THEN IF rest = <<>> THEN [ok |-> TRUE, dict |-> dict, rest |-> rest]
         ELSE [ok |-> TRUE, dict |-> SetKey(dict, "system", rest[1]),
               rest |-> Tail(rest)]
    ELSE IF rest # <<>> THEN RaisedWith("ValueError")
    ELSE [ok |-> TRUE, dict |-> dict, rest |-> rest]

\* _parse(key, stress_period_schema)
_parse(k, sch) ==
    LET segs == Split(k, "-")
        name == segs[1]
    IN  IF ~(IsWord(name) /\ name[1] \in DOMAIN sch) THEN RaisedWith("KeyError")
        ELSE LET f == parse_field([name |-> name], Tail(segs), OrderOf(sch, name[1]))
             IN  IF ~f.ok THEN f
                 ELSE LET sy == parse_system(f.dict, f.rest, sch[name[1]].systems)
                      IN  IF ~sy.ok THEN sy
                          ELSE IF sy.rest # <<>> THEN RaisedWith("RuntimeError")
                          ELSE Returned(sy.dict)

\* "-".join(segments): a key from its segments
ComposeKey(segments) == Join(segments, "-")

-----------------------------------------------------------------------------
(* The key parser as a state machine: a key is drawn, then parsed.          *)

MaxKeySegments == 4

\* the segments arbitrary keys are made of: names, fields, labels, an
\* unknown word, the empty segment
KeySegments ==
    { <<>>, <<"riv">>, <<"rch">>, <<"wel">>, <<"stage">>, <<"cond">>,
      <<"sys1">>, <<"foo">> }

\* system labels: arbitrary words, a field name and the empty label among them
SystemLabels == { <<"sys1">>, <<"a">>, <<"cond">>, <<>> }

RECURSIVE SeqsUpTo(_, _)
SeqsUpTo(S, n) ==
    IF n = 0 THEN {<<>>}
    ELSE LET shorter == SeqsUpTo(S, n - 1)
         IN  shorter \cup {Append(q, x) : q \in shorter, x \in S}

ArbitraryKeys == {ComposeKey(q) : q \in SeqsUpTo(KeySegments, MaxKeySegments) \ {<<>>}}

\* the fields a key of package name may carry: one of the order, or none
\* when the package declares no order
FieldChoices(sch, name) ==
    IF OrderOf(sch, name) = <<>> THEN {<<>>}
    ELSE {<< <<OrderOf(sch, name)[i]>> >> : i \in 1..Len(OrderOf(sch, name))}

\* the systems a key of package name may carry, out of the labels
SystemChoices(sch, name, labels) ==
    IF sch[name].systems THEN {<<>>} \cup {<<l>> : l \in labels} ELSE {<<>>}

\* the valid triples (name, field, system) of a schema, each as the
\* sequence of its segments
ValidTriples(sch, labels) ==
    UNION { { << <<n>> >> \o f \o sy :
                f \in FieldChoices(sch, n), sy \in SystemChoices(sch, n, labels) } :
            n \in DOMAIN sch }

InitParse ==
    /\ schema \in {stress_period_schema, seawat_period_schema}
    /\ key \in ArbitraryKeys
               \cup {ComposeKey(t) : t \in ValidTriples(schema, SystemLabels)}
    /\ parsed = None
    /\ parse_pc = "start"
    /\ times = <<>>
    /\ CodecIdle /\ TimeIdle /\ PeriodIdle /\ ModelIdle /\ GroupIdle /\ SimIdle /\ CacheIdle

\* parsed = _parse(key, schema)
Parse ==
    /\ parse_pc = "start"
    /\ parsed' = _parse(key, schema)
    /\ parse_pc' = "done"
    /\ UNCHANGED <<key, schema, codec_vars, times, time_vars, period_vars,
                   model_vars, group_vars, sim_vars,
                   cache_vars>>

NextParse == Parse

SpecParse == InitParse /\ [][NextParse]_vars


-----------------------------------------------------------------------------
(* Claims about the key parser                                              *)

\* the dict {name, field, system} of a triple given as its segments
TripleDict(sch, t) ==
    LET name    == t[1]
        ordered == OrderOf(sch, name[1]) # <<>>
        d1      == [name |-> name]
        d2      == IF ordered THEN SetKey(d1, "field", t[2]) ELSE d1
        nsys    == IF ordered THEN 3 ELSE 2
    IN  IF Len(t) >= nsys THEN SetKey(d2, "system", t[nsys]) ELSE d2

\* C3: for every package name of a stress-period schema, every field of its
\* declared order (none when it declares none) and every system label without
\* "-" (when the package has systems), _parse of the key name[-field][-system]
\* returns exactly the dict of that name, field and system.
C3_ParseRoundTrip ==
    parse_pc = "done" =>
        \A t \in ValidTriples(schema, SystemLabels) :
            key = ComposeKey(t) => parsed = Returned(TripleDict(schema, t))

C3_Witness ==
    /\ parse_pc = "done"
    /\ schema = seawat_period_schema
    /\ key = <<"riv", "-", "dens", "-", "sys1">>
    /\ parsed.ok
    /\ parsed.value = [name |-> <<"riv">>, field |-> <<"dens">>, system |-> <<"sys1">>]

\* a key is well formed under a schema: its segments are a package name of
\* the schema, then one field of the declared order if the package declares
\* one, then at most one more segment if the package has systems
WellFormedKey(k, sch) ==
    LET segs == Split(k, "-")
    IN  Tail(segs) \in
            UNION { { f \o sy : f \in FieldChoices(sch, n),
                               sy \in SystemChoices(sch, n, Symbols(segs)) } :
                    n \in {m \in DOMAIN sch : segs[1] = <<m>>} }

\* C4: _parse fails when the first segment is no package name of the schema,
\* when the package declares an order and the next segment is missing or not
\* in it, and when a segment is left over after name, field and (with
\* systems) one label; it parses every other key.
C4_ParseAcceptsExactlyWellFormed ==
    parse_pc = "done" => (parsed.ok <=> WellFormedKey(key, schema))

\* a key with a segment left over after the system label is refused
C4_Witness ==
    /\ parse_pc = "done"
    /\ schema = stress_period_schema
    /\ key = <<"riv", "-", "stage", "-", "sys1", "-", "foo">>
    /\ WellFormedKey(<<"riv", "-", "stage", "-", "sys1">>, schema)
    /\ ~parsed.ok


-----------------------------------------------------------------------------
(* collections.OrderedDict: a sequence of <<key, value>> pairs              *)

OD_Has(od, k) == \E i \in 1..Len(od) : od[i][1] = k

OD_Get(od, k) == od[CHOOSE i \in 1..Len(od) : od[i][1] = k][2]

\* od[k] = v: a new key goes last, a known key keeps its place
OD_Set(od, k, v) ==
    IF OD_Has(od, k)
    THEN [i \in 1..Len(od) |-> IF od[i][1] = k THEN <<k, v>> ELSE od[i]]
    ELSE Append(od, <<k, v>>)

OD_Keys(od) == [i \in 1..Len(od) |-> od[i][1]]

-----------------------------------------------------------------------------
(* imod/run.py: _time_discretisation                                        *)

\* end - start as a Timedelta: its days and seconds attributes (the part of
\* a second, kept in tenths here, is in neither)
TimedeltaOf(start, end) ==
    LET tenths == ((end.day - start.day) * 86400 + (end.sec - start.sec)) * 10
                  + (end.sub - start.sub)
        whole  == tenths \div 10
    IN  [days |-> whole \div 86400, seconds |-> whole % 86400]

\* duration = timedelta.days + timedelta.seconds / 86400.0, kept as the
\* number of 1/86400 days
DurationOf(timedelta) == timedelta.days * 86400 + timedelta.seconds

\* the loop over zip(times[:-1], times[1:]), from pair i on
RECURSIVE time_discretisation_from(_, _, _)
time_discretisation_from(ts, i, od) ==
    IF i >= Len(ts) THEN od
    ELSE time_discretisation_from(ts, i + 1,
             OD_Set(od, Strftime(ts[i]), DurationOf(TimedeltaOf(ts[i], ts[i + 1]))))

\* _time_discretisation(times): the OrderedDict period name -> duration
_time_discretisation(ts) == time_discretisation_from(ts, 1, <<>>)


\* d["nper"] of _data_bounds
Nper(ts) == IF Len(ts) > 0 THEN Len(ts) - 1 ELSE 1

\* sorted(times) of a set of datetimes
RECURSIVE SortTimes(_)
SortTimes(S) ==
    IF S = {} THEN <<>>
    ELSE LET first == CHOOSE t \in S : \A u \in S : TimeLeq(t, u)
         IN  <<first>> \o SortTimes(S \ {first})

-----------------------------------------------------------------------------
(* The time discretisation as a state machine: get_runfile hands the        *)
(* sorted global times, when there are any, to _time_discretisation.        *)

MaxTimes == 3

\* instants: on whole seconds, and one half a second after another
TimeInstants ==
    { DateTime(1999, 12, 31, 23, 59, 59),
      DateTime(2000, 1, 1, 0, 0, 0),
      [DateTime(2000, 1, 1, 0, 0, 0) EXCEPT !.sub = 5],
      DateTime(2000, 1, 1, 0, 0, 1),
      DateTime(2000, 1, 2, 0, 0, 0),
      DateTime(2000, 2, 29, 12, 0, 0),
      DateTime(2001, 1, 1, 0, 0, 0) }

InitTime ==
    /\ \E S \in SUBSET TimeInstants :
          /\ Cardinality(S) \in 1..MaxTimes
          /\ times = SortTimes(S)
    /\ discretised = None
    /\ time_pc = "start"
    /\ CodecIdle /\ ParseIdle /\ PeriodIdle /\ ModelIdle /\ GroupIdle /\ SimIdle /\ CacheIdle

\* discretised = _time_discretisation(times)
Discretise ==
    /\ time_pc = "start"
    /\ discretised' = Returned(_time_discretisation(times))
    /\ time_pc' = "done"
    /\ UNCHANGED <<times, codec_vars, parse_vars, period_vars, model_vars,
                   group_vars, sim_vars,
                   cache_vars>>

NextTime == Discretise

SpecTime == InitTime /\ [][NextTime]_vars

-----------------------------------------------------------------------------
(* Claims about the time discretisation                                     *)

\* a < b on strings of digits of one length: the first digit that differs
DigitsLess(a, b) ==
    /\ Len(a) = Len(b)
    /\ \E i \in 1..Len(a) :
          /\ DigitVal(a[i]) < DigitVal(b[i])
          /\ \A k \in 1..(i - 1) : a[k] = b[k]

\* C7 as stated: for n unique ascending instants _time_discretisation returns
\* exactly n - 1 periods, each of strictly positive duration, with strictly
\* increasing labels.
C7_PeriodCountAndOrder ==
    time_pc = "done" =>
        LET od == discretised.value
        IN  /\ Len(od) = Len(times) - 1
            /\ \A i \in 1..Len(od) : od[i][2] > 0
            /\ \A i \in 1..(Len(od) - 1) : DigitsLess(od[i][1], od[i + 1][1])


-----------------------------------------------------------------------------
(* imod/run.py: _get_system, _get_wel, _groupby_field, _sortby_field,       *)
(* _get_period.  The data of an entry is [kind, layer] and, when it has a   *)
(* time coordinate or column, time: kind "da" is a DataArray with its       *)
(* coordinates, kind "df" a DataFrame with its columns.                     *)

\* list(filter(lambda t: t <= globaltime, package_times))
FilterLeq(package_times, globaltime) ==
    SelectSeq(package_times, LAMBDA t : TimeLeq(t, globaltime))

\* a slip: the first package time stands in when none is at or before the
\* global time
forward_fill_defaulting(package_times, globaltime) ==
    LET earlier == FilterLeq(package_times, globaltime)
    IN  IF earlier = <<>> THEN Returned(package_times[1])
        ELSE Returned(earlier[Len(earlier)])

\* the forward fill: list(filter(...))[-1], an IndexError on an empty list
forward_fill(package_times, globaltime) ==
    LET earlier == FilterLeq(package_times, globaltime)
    IN  IF earlier = <<>> THEN RaisedWith("IndexError")
        ELSE Returned(earlier[Len(earlier)])

\* a slip: one path per stress period, zip(times[:-1], times[1:])
NumberOfPeriods(ts) == IF Len(ts) <= 1 THEN 1 ELSE Len(ts) - 1

\* the number of global times the loops run over: [0] stands for steady state
NumberOfTimes(ts) == IF ts = <<>> THEN 1 ELSE Len(ts)

\* the loop of _get_system over the global times, for one layer: dict is the
\* dict d of that layer, which compose writes to
RECURSIVE system_periods(_, _, _, _, _)
system_periods(da, dict, ts, i, periods) ==
    IF i > NumberOfTimes(ts) THEN Returned(periods)
    ELSE IF HasKey(da, "time")
         THEN IF ts = <<>> THEN RaisedWith("TypeError")
              ELSE Bind(forward_fill(da.time, ts[i]), LAMBDA time :
                     IF ~time.ok THEN time
                     ELSE Bind(SetKey(dict, "time", time.value), LAMBDA d1 :
                          Bind(<<compose_d(d1), Append(periods, compose(d1))>>,
                               LAMBDA a : system_periods(da, a[1], ts, i + 1, a[2]))))
         ELSE Bind(<<compose_d(dict), Append(periods, compose(dict))>>,
                   LAMBDA a : system_periods(da, a[1], ts, i + 1, a[2]))

\* the loop of _get_system over the layers, from layer j on
RECURSIVE system_layers(_, _, _, _, _)
system_layers(item, ts, directory, j, single_system) ==
    IF j > Len(item.data.layer) THEN Returned(single_system)
    ELSE LET layer == item.data.layer[j]
             dict  == [directory |-> directory, name |-> item.key,
                       layer |-> layer, extension |-> <<".", "i", "d", "f">>]
         IN  Bind(system_periods(item.data, dict, ts, 1, <<>>), LAMBDA periods :
                IF ~periods.ok THEN periods
                ELSE Bind(OD_Set(single_system, layer, periods.value),
                          LAMBDA ss : system_layers(item, ts, directory, j + 1, ss)))

\* _get_system(item, times, directory): layer -> the paths of the layer
_get_system(item, ts, directory) == system_layers(item, ts, directory, 1, <<>>)

\* np.unique(values): the distinct values, ascending
RECURSIVE SortInts(_)
SortInts(S) ==
    IF S = {} THEN <<>>
    ELSE LET least == CHOOSE x \in S : \A y \in S : x <= y
         IN  <<least>> \o SortInts(S \ {least})

\* a slip: one path per time of the table, each with that time
wel_periods_per_table_time(df, dict, ts) ==
    IF HasKey(df, "time")
    THEN LET own == SortTimes(Symbols(df.time))
         IN  [i \in 1..Len(own) |-> compose(SetKey(dict, "time", own[i]))]
    ELSE <<compose(dict)>>

\* the loop of _get_wel over the global times, for one layer: the same
\* path, without a time, once per global time
wel_periods(df, dict, ts) == [i \in 1..NumberOfTimes(ts) |-> compose(dict)]

\* the loop of _get_wel over the layers of the table, from layer j on
RECURSIVE wel_layers(_, _, _, _, _, _)
wel_layers(item, layers, ts, directory, j, single_system) ==
    IF j > Len(layers) THEN Returned(single_system)
    ELSE LET dict == [directory |-> directory, name |-> item.key,
                      layer |-> layers[j], extension |-> <<".", "i", "p", "f">>]
         IN  Bind(OD_Set(single_system, layers[j], wel_periods(item.data, dict, ts)),
                  LAMBDA ss : wel_layers(item, layers, ts, directory, j + 1, ss))

\* _get_wel(item, times, directory): layer -> the paths of the layer
_get_wel(item, ts, directory) ==
    Bind(SortInts(Symbols(item.data.layer)),
         LAMBDA layers : wel_layers(item, layers, ts, directory, 1, <<>>))

\* the field names in the order of Python's string comparison
FieldWords == <<"bot", "conc", "cond", "dens", "head", "inff", "rate", "stage",
                "value">>

FieldRank(w) == CHOOSE i \in 1..Len(FieldWords) : FieldWords[i] = w

\* x.get("field", "value")
FieldOf(item) == IF HasKey(item, "field") THEN item.field ELSE <<"value">>

\* x.get("system", "default_system")
SystemOf(item) == IF HasKey(item, "system") THEN item.system ELSE <<"default_system">>

\* the items of _groupby_field: key, data and the parsed parts of every
\* entry, in the order of the package; the first key _parse refuses raises
RECURSIVE package_items(_, _, _, _)
package_items(pkg, sch, i, items) ==
    IF i > Len(pkg) THEN Returned(items)
    ELSE Bind(_parse(pkg[i].key, sch), LAMBDA p :
           IF ~p.ok THEN p
           ELSE Bind(Append(items, SetKey(SetKey(p.value, "key", pkg[i].key),
                                          "data", pkg[i].data)),
                     LAMBDA list_package : package_items(pkg, sch, i + 1, list_package)))

\* sorted(list_package, key=field): a stable sort, one item inserted at a time
RECURSIVE SortByField(_)
SortByField(items) ==
    IF Len(items) <= 1 THEN items
    ELSE Bind(SortByField(SubSeq(items, 1, Len(items) - 1)), LAMBDA init :
           LET x      == items[Len(items)]
               before == Cardinality({i \in 1..Len(init) :
                             FieldRank(FieldOf(init[i])[1]) <= FieldRank(FieldOf(x)[1])})
           IN  SubSeq(init, 1, before) \o <<x>> \o SubSeq(init, before + 1, Len(init)))

\* _groupby_field(package, schema): the sorted items; itertools.groupby
\* starts a group wherever the field changes
_groupby_field(pkg, sch) ==
    Bind(package_items(pkg, sch, 1, <<>>), LAMBDA items :
        IF ~items.ok THEN items ELSE Returned(SortByField(items.value)))

\* a slip: the fields are left in the order the groups came in
sortby_field_unsorted(package_data, name, sch) == Returned(package_data)

\* the loop of _sortby_field over the declared order
RECURSIVE sortby_field_from(_, _, _, _)
sortby_field_from(package_data, order, i, sorted_data) ==
    IF i > Len(order) THEN Returned(sorted_data)
    ELSE IF ~OD_Has(package_data, <<order[i]>>) THEN RaisedWith("KeyError")
    ELSE Bind(OD_Set(sorted_data, <<order[i]>>, OD_Get(package_data, <<order[i]>>)),
              LAMBDA sd : sortby_field_from(package_data, order, i + 1, sd))

\* _sortby_field(package_data, name, schema)
_sortby_field(package_data, name, sch) ==
    IF OrderOf(sch, name) = <<>> THEN Returned(package_data)
    ELSE sortby_field_from(package_data, OrderOf(sch, name), 1, <<>>)

\* the loops of _get_period over the groups and their items, from item i of
\* the sorted items on
RECURSIVE period_items(_, _, _, _, _, _)
period_items(items, name, ts, directory, i, package_data) ==
    IF i > Len(items) THEN Returned(package_data)
    ELSE LET item    == items[i]
             field   == FieldOf(item)
             grouped == i > 1 /\ FieldOf(items[i - 1]) = field
             systemdata == IF grouped THEN OD_Get(package_data, field) ELSE <<>>
         IN  Bind(IF name = "wel" /\ item.data.kind = "df"
                  THEN _get_wel(item, ts, directory)
                  ELSE _get_system(item, ts, directory), LAMBDA single :
                IF ~single.ok THEN single
                ELSE Bind(OD_Set(package_data, field,
                                 OD_Set(systemdata, SystemOf(item), single.value)),
                          LAMBDA pd : period_items(items, name, ts, directory,
                                                   i + 1, pd)))

\* _get_period(package, times, directory, schema): field -> system -> layer
\* -> the paths
_get_period(pkg, ts, directory, sch) ==
    LET name == Split(pkg[1].key, "-")[1][1]
    IN  Bind(_groupby_field(pkg, sch), LAMBDA grouped :
           IF ~grouped.ok THEN grouped
           ELSE Bind(period_items(grouped.value, name, ts, directory, 1, <<>>),
                     LAMBDA package_data :
                       IF ~package_data.ok THEN package_data
                       ELSE Bind(package_data.value,
                                 LAMBDA pd : _sortby_field(pd, name, sch))))


-----------------------------------------------------------------------------
(* The path expander as a state machine: the entries of one package of a    *)
(* model and the global times of the model (the sorted union of the times   *)
(* of all its entries, as _data_bounds collects them) go to _get_period.    *)

NumInstants == 3
MaxPackageTimes == 2
NumLayers == 2

\* the instants of the models: midnight of the first days of 2000
Instants ==
    { [DateTime(2000, 1, 1, 0, 0, 0) EXCEPT !.day = @ + i] : i \in 0..(NumInstants - 1) }

IsInjective(q) == \A i, j \in 1..Len(q) : q[i] = q[j] => i = j

\* time coordinates: distinct instants, in any order
TimeCoords ==
    {q \in SeqsUpTo(Instants, MaxPackageTimes) : q # <<>> /\ IsInjective(q)}

\* layer coordinates: the layers 1..k, or the top layer -1
LayerCoords == {[i \in 1..k |-> i] : k \in 1..NumLayers} \cup {<<-1>>}

DataArrays ==
    { [kind |-> "da", layer |-> l] @@ t :
        l \in LayerCoords, t \in OptionalKey("time", TimeCoords) }

\* a table with one row for every time and layer: its columns
TableOf(da) ==
    LET nl  == Len(da.layer)
        nt  == IF HasKey(da, "time") THEN Len(da.time) ELSE 1
        lay == [r \in 1..(nt * nl) |-> da.layer[((r - 1) % nl) + 1]]
    IN  IF HasKey(da, "time")
        THEN [kind |-> "df", layer |-> lay,
              time |-> [r \in 1..(nt * nl) |-> da.time[((r - 1) \div nl) + 1]]]
        ELSE [kind |-> "df", layer |-> lay]

\* the keys of the packages drawn: drn declares the order (cond, bot) and has
\* systems; wel is a table and has systems; rch has neither
PackageKeys ==
    [ drn |-> { <<"drn", "-", "cond">>, <<"drn", "-", "bot">>,
                <<"drn", "-", "bot", "-", "sys1">>, <<"drn", "-", "foo">> },
      wel |-> { <<"wel">>, <<"wel", "-", "sys1">> },
      rch |-> { <<"rch">> } ]

\* the keys of a package in the order of the model: one key, or two
KeyOrders(name) ==
    {<<k>> : k \in PackageKeys[name]}
    \cup {q \in {<<k1, k2>> : k1 \in PackageKeys[name], k2 \in PackageKeys[name]} :
              q[1] # q[2]}

\* the data of steady state: no time, one layer
SteadyData == [kind |-> "da", layer |-> <<1>>]

DataFor(name, da) == IF name = "wel" THEN TableOf(da) ELSE da

\* the set of the times of an entry: what _data_bounds adds to its set
TimesOf(data) == IF HasKey(data, "time") THEN Symbols(data.time) ELSE {}

\* d["times"] of _data_bounds: the sorted set of all times of the model
GlobalTimes(pkg, other) ==
    SortTimes(UNION {TimesOf(pkg[i].data) : i \in 1..Len(pkg)} \cup other)

\* directory.joinpath(name) of get_runfile
PackageDirectory(name) == JoinPath(<< <<"model">> >>, <<name>>)

InitPeriod ==
    /\ \E name \in DOMAIN PackageKeys, da \in DataArrays, same \in BOOLEAN :
       \E keys \in KeyOrders(name) :
       \E other \in {{}} \cup {{t} : t \in Instants} :
          /\ package = [i \in 1..Len(keys) |->
                          [key  |-> keys[i],
                           data |-> DataFor(name, IF i = 1 \/ same THEN da
                                                  ELSE SteadyData)]]
          /\ times = GlobalTimes(package, other)
    /\ schema = stress_period_schema
    /\ period_data = None
    /\ period_pc = "start"
    /\ key = <<>> /\ parsed = None /\ parse_pc = "idle"
    /\ CodecIdle /\ TimeIdle /\ ModelIdle /\ GroupIdle /\ SimIdle /\ CacheIdle

\* the name of the package: what _pop_package selected its keys by
PackageName == Split(package[1].key, "-")[1][1]

\* period_data = _get_period(package, times, path, stress_period_schema)
GetPeriod ==
    /\ period_pc = "start"
    /\ period_data' = _get_period(package, times, PackageDirectory(PackageName),
                                  schema)
    /\ period_pc' = "done"
    /\ UNCHANGED <<package, times, schema, key, parsed, parse_pc,
                   codec_vars, time_vars, model_vars, group_vars, sim_vars,
                   cache_vars>>

NextPeriod == GetPeriod

SpecPeriod == InitPeriod /\ [][NextPeriod]_vars


-----------------------------------------------------------------------------
(* Claims about the path expander                                           *)

\* the entries of the package that are arrays / arrays with a time
\* coordinate / tables
ArrayEntries == {i \in 1..Len(package) : package[i].data.kind = "da"}
TimedArrayEntries == {i \in ArrayEntries : HasKey(package[i].data, "time")}
TableEntries == {i \in 1..Len(package) : package[i].data.kind = "df"}

\* the list of paths the tree holds for entry i and a layer
PathsOf(i, layer) ==
    LET p == _parse(package[i].key, schema).value
    IN  OD_Get(OD_Get(OD_Get(period_data.value, FieldOf(p)), SystemOf(p)), layer)

\* the path of entry i, a layer and a time, as compose builds it
TimedPath(i, layer, time) ==
    compose([directory |-> PackageDirectory(PackageName), name |-> package[i].key,
             layer |-> layer, extension |-> <<".", "i", "d", "f">>, time |-> time])

\* the latest of a set of times that is at or before g
LatestAtOrBefore(T, g) ==
    CHOOSE t \in T : TimeLeq(t, g) /\ \A u \in T : TimeLeq(u, g) => TimeLeq(u, t)

\* C5 as stated: for every array entry with a time coordinate, every layer
\* and every global instant g, the path emitted for g carries the latest
\* package time at or before g, whatever the order of the time coordinate.
C5_ForwardFillLatest ==
    (period_pc = "done" /\ period_data.ok) =>
        \A i \in TimedArrayEntries :
        \A j \in 1..Len(package[i].data.layer) :
        \A g \in 1..Len(times) :
            LET layer == package[i].data.layer[j]
            IN  PathsOf(i, layer)[g] =
                    TimedPath(i, layer,
                              LatestAtOrBefore(TimesOf(package[i].data), times[g]))

\* an array entry with a time coordinate none of whose times is at or before
\* the first global time
NoPriorValue(i) ==
    /\ i \in TimedArrayEntries
    /\ \A t \in TimesOf(package[i].data) : ~TimeLeq(t, times[1])

\* C6: if an array entry with a time coordinate has no package time at or
\* before the first global time, _get_period fails: it returns no paths and
\* substitutes no default.
C6_NoPriorValueFails ==
    (period_pc = "done" /\ \E i \in 1..Len(package) : NoPriorValue(i))
        => ~period_data.ok

\* the package drn, both fields given, bot first defined at the second
\* global time: the forward fill has nothing to take
C6_Witness ==
    /\ period_pc = "done"
    /\ Len(package) = 2
    /\ package[1].key = <<"drn", "-", "bot">>
    /\ package[2].key = <<"drn", "-", "cond">>
    /\ NoPriorValue(1)
    /\ ~period_data.ok
    /\ period_data.error = "IndexError"

\* C8 as stated: the list under every (field, system, layer) of an array
\* entry has exactly one path per stress period: its length is nper, the
\* number of global times less one.
C8_OnePathPerPeriod ==
    (period_pc = "done" /\ period_data.ok) =>
        \A i \in ArrayEntries :
        \A j \in 1..Len(package[i].data.layer) :
            Len(PathsOf(i, package[i].data.layer[j])) = Nper(times)

\* C8 amended: the list under every (field, system, layer) of an array entry
\* has exactly one path per global time, in the order of the global times
\* (nper + 1 paths; one path in steady state): the path at a global time
\* carries, for an entry with a time coordinate, a package time at or before
\* that global time.
C8_OnePathPerGlobalTime ==
    (period_pc = "done" /\ period_data.ok) =>
        \A i \in ArrayEntries :
        \A j \in 1..Len(package[i].data.layer) :
            LET layer == package[i].data.layer[j]
                paths == PathsOf(i, layer)
            IN  /\ Len(paths) = IF times = <<>> THEN 1 ELSE Len(times)
                /\ times # <<>> => Len(paths) = Nper(times) + 1
                /\ i \in TimedArrayEntries =>
                      \A g \in 1..Len(times) :
                      \E t \in TimesOf(package[i].data) :
                          TimeLeq(t, times[g]) /\ paths[g] = TimedPath(i, layer, t)

\* three global times, two periods, an entry defined at the first two: each
\* layer holds three paths
C8_Witness ==
    /\ period_pc = "done"
    /\ period_data.ok
    /\ Len(times) = 3
    /\ Nper(times) = 2
    /\ 1 \in TimedArrayEntries
    /\ package[1].data.time = <<times[1], times[2]>>
    /\ Len(PathsOf(1, package[1].data.layer[1])) = 3

FieldAbsent(w) ==
    \A i \in 1..Len(package) :
        LET segs == Split(package[i].key, "-")
        IN  Len(segs) < 2 \/ segs[2] # <<w>>

\* C10: for a package whose schema declares a field order, the fields of the
\* tree _get_period returns are in exactly the declared order, whatever the
\* order of the input keys, and the call fails if a declared field is absent
\* from the input.
C10_FieldOrder ==
    (period_pc = "done" /\ OrderOf(schema, PackageName) # <<>>) =>
        LET order == OrderOf(schema, PackageName)
        IN  /\ period_data.ok =>
                  OD_Keys(period_data.value) = [i \in 1..Len(order) |-> <<order[i]>>]
            /\ (\E i \in 1..Len(order) : FieldAbsent(order[i])) => ~period_data.ok

\* the keys given as bot, cond; the tree has cond, bot
C10_Witness ==
    /\ period_pc = "done"
    /\ period_data.ok
    /\ Len(package) = 2
    /\ package[1].key = <<"drn", "-", "bot">>
    /\ package[2].key = <<"drn", "-", "cond">>
    /\ OD_Keys(period_data.value) = << <<"cond">>, <<"bot">> >>

-----------------------------------------------------------------------------
(* imod/util.py: _delta, spatial_reference; imod/run.py: _data_bounds.      *)
(* The data of an entry carries, besides kind, layer and time, its x and y: *)
(* the midpoint coordinates of a DataArray, the x and y columns of a        *)
(* DataFrame.  Coordinates are integers; an extent is kept in halves of the *)
(* unit, so that midpoint - 0.5 * cellsize is exact.                        *)

Abs(v) == IF v < 0 THEN 0 - v ELSE v

\* x.min(), x.max()
SeqMin(q) == CHOOSE v \in Symbols(q) : \A w \in Symbols(q) : v <= w
SeqMax(q) == CHOOSE v \in Symbols(q) : \A w \in Symbols(q) : w <= v

\* _delta(x, coordname): dxs = np.diff(x); dx = dxs[0], an IndexError when x
\* has one value; a ValueError when the differences are not all dx
_delta(x) ==
    IF Len(x) < 2 THEN RaisedWith("IndexError")
    ELSE IF \E i \in 1..(Len(x) - 1) : x[i + 1] - x[i] # x[2] - x[1]
         THEN RaisedWith("ValueError")
         ELSE Returned(x[2] - x[1])

\* spatial_reference(a) of an equidistant DataArray: (dx, xmin, xmax, dy,
\* ymin, ymax), the four extents in halves
spatial_reference(a) ==
    LET ncol == Len(a.x)
        nrow == Len(a.y)
    IN  Bind(IF ncol = 1 THEN _delta(a.y) ELSE _delta(a.x), LAMBDA dx :
        IF ~dx.ok THEN dx
        ELSE Bind(IF ncol # 1 /\ nrow = 1 THEN _delta(a.x) ELSE _delta(a.y),
                  LAMBDA dy :
             IF ~dy.ok THEN dy
             ELSE Returned([dx   |-> dx.value,
                            xmin |-> 2 * SeqMin(a.x) - Abs(dx.value),
                            xmax |-> 2 * SeqMax(a.x) + Abs(dx.value),
                            dy   |-> dy.value,
                            ymin |-> 2 * SeqMin(a.y) - Abs(dy.value),
                            ymax |-> 2 * SeqMax(a.y) + Abs(dy.value)])))

\* key in model, model[key]
ModelHas(m, k) == \E i \in 1..Len(m) : m[i].key = k
ModelGet(m, k) == m[CHOOSE i \in 1..Len(m) : m[i].key = k].data

\* a slip: consecutive layers, starting at any layer
IsConsecutiveFromAny(layers) ==
    /\ IsInjective(layers)
    /\ Symbols(layers) = SeqMin(layers)..(SeqMin(layers) + Len(layers) - 1)

\* sorted(layers) == list(range(1, len(layers) + 1))
IsConsecutive(layers) ==
    Symbols(layers) = 1..Len(layers) /\ IsInjective(layers)

\* the extent of an entry: the column minima and maxima of a DataFrame, the
\* spatial reference of a DataArray
entry_extent(data) ==
    IF data.kind = "df"
    THEN Returned([xmin |-> 2 * SeqMin(data.x), xmax |-> 2 * SeqMax(data.x),
                   ymin |-> 2 * SeqMin(data.y), ymax |-> 2 * SeqMax(data.y)])
    ELSE spatial_reference(data)

\* the test of one layer of an entry: -1 passes when not seawat, any other
\* value must be a layer of bnd
layer_in_bounds(layer, layers, sw) ==
    (layer = -1 /\ ~sw) \/ layer \in Symbols(layers)

\* a slip: the maxima are not compared
extent_in_bounds_minima_only(e, bnd) ==
    e.xmin >= bnd.xmin /\ e.ymin >= bnd.ymin

\* the four comparisons with the extent of bnd
extent_in_bounds(e, bnd) ==
    /\ e.xmin >= bnd.xmin
    /\ e.xmax <= bnd.xmax
    /\ e.ymin >= bnd.ymin
    /\ e.ymax <= bnd.ymax

\* a slip: only the time coordinates of arrays are collected
entry_times_arrays_only(data) ==
    IF data.kind = "da" THEN TimesOf(data) ELSE {}

\* tvals of an entry: what times.update(tvals) adds
entry_times(data) == TimesOf(data)

\* the body of the loop of _data_bounds for one entry: the values it adds to
\* times, or the error it raises
bounds_entry(data, layers, bnd, sw) ==
    Bind(entry_extent(data), LAMBDA e :
        IF ~e.ok THEN e
        ELSE IF \E i \in 1..Len(data.layer) :
                    ~layer_in_bounds(data.layer[i], layers, sw)
             THEN RaisedWith("ValueError")
        ELSE IF ~extent_in_bounds(e.value, bnd) THEN RaisedWith("ValueError")
        ELSE Returned(entry_times(data)))

\* the loop of _data_bounds over the entries, from entry i on
RECURSIVE bounds_entries(_, _, _, _, _, _)
bounds_entries(m, layers, bnd, sw, i, ts) ==
    IF i > Len(m) THEN Returned(ts)
    ELSE Bind(bounds_entry(m[i].data, layers, bnd, sw), LAMBDA tvals :
            IF ~tvals.ok THEN tvals
            ELSE Bind(ts \cup tvals.value,
                      LAMBDA t2 : bounds_entries(m, layers, bnd, sw, i + 1, t2)))

\* d["nlay"] = len(layers)
bounds_nlay(layers) == Len(layers)

\* _data_bounds(model, seawat)
_data_bounds(m, sw) ==
    IF ~ModelHas(m, <<"bnd">>) THEN RaisedWith("KeyError")
    ELSE LET bnd    == ModelGet(m, <<"bnd">>)
             layers == bnd.layer
         IN  IF ~IsConsecutive(layers) THEN RaisedWith("AssertionError")
             ELSE Bind(spatial_reference(bnd), LAMBDA ref :
                  IF ~ref.ok THEN ref
                  ELSE Bind(bounds_entries(m, layers, ref.value, sw, 1, {}),
                            LAMBDA ts :
                       IF ~ts.ok THEN ts
                       ELSE LET dd == [nrow |-> Len(bnd.y), ncol |-> Len(bnd.x),
                                       nlay |-> bounds_nlay(layers),
                                       dx |-> Abs(ref.value.dx),
                                       dy |-> Abs(ref.value.dy),
                                       xmin |-> ref.value.xmin,
                                       xmax |-> ref.value.xmax,
                                       ymin |-> ref.value.ymin,
                                       ymax |-> ref.value.ymax,
                                       nper |-> Nper(SortTimes(ts.value))]
                            IN  Returned(IF ts.value # {}
                                         THEN SetKey(dd, "times", SortTimes(ts.value))
                                         ELSE dd)))

-----------------------------------------------------------------------------
(* The bounds of a model as a state machine: a model is drawn, bnd and one  *)
(* or two more entries, and handed to _data_bounds.                         *)

MaxBndLayers == 2

\* layer coordinates of bnd: 1..k in any order, and coordinates that skip,
\* repeat or start off 1
BndLayerCoords ==
    {q \in SeqsUpTo(0..(MaxBndLayers + 1), MaxBndLayers) : q # <<>>}

GoodBndLayerCoords == {q \in BndLayerCoords : IsConsecutive(q)}

\* the grid of bnd: cells of size 2 with midpoints x = 1, 3, 5 and y = 3, 1,
\* extent [0, 6] x [0, 4]; one column; one cell
BndGrids ==
    { [x |-> <<1, 3, 5>>, y |-> <<3, 1>>],
      [x |-> <<1>>, y |-> <<3, 1>>],
      [x |-> <<1>>, y |-> <<1>>] }

WideGrid == [x |-> <<1, 3, 5>>, y |-> <<3, 1>>]

\* grids of an array entry against the wide grid: the same, inside, one cell
\* out to the left, right, top, bottom, and not equidistant
EntryGrids ==
    { WideGrid,
      [x |-> <<3, 5>>, y |-> <<3, 1>>],
      [x |-> <<-1, 1, 3>>, y |-> <<3, 1>>],
      [x |-> <<3, 5, 7>>, y |-> <<3, 1>>],
      [x |-> <<1, 3, 5>>, y |-> <<5, 3>>],
      [x |-> <<1, 3, 5>>, y |-> <<1, -1>>],
      [x |-> <<1, 3, 6>>, y |-> <<3, 1>>] }

\* the x and y columns of a table entry: points on the corners of the
\* extent, inside, and one unit out on each side
EntryPoints ==
    { [x |-> <<0, 6>>, y |-> <<0, 4>>],
      [x |-> <<3>>, y |-> <<2>>],
      [x |-> <<-1, 3>>, y |-> <<2, 2>>],
      [x |-> <<3, 7>>, y |-> <<2, 2>>],
      [x |-> <<3>>, y |-> <<-1>>],
      [x |-> <<3>>, y |-> <<5>>] }

\* layer coordinates of an entry: one value from -1 to one past the layers
\* of bnd, and two values
EntryLayerCoords ==
    {<<v>> : v \in (-1)..(MaxBndLayers + 1)} \cup {<<1, 2>>, <<1, -1>>}

\* the data of an entry of kind k on a grid (or at points), with layers and,
\* maybe, times
EntryData(k, grid, layers, t) ==
    [kind |-> k, layer |-> layers, x |-> grid.x, y |-> grid.y] @@ t

\* entries that vary in place and layer: arrays khv and rch, the table wel
PlacedEntries ==
    { [key |-> k, data |-> EntryData("da", g, l, <<>>)] :
        k \in {<<"khv">>, <<"rch">>}, g \in EntryGrids, l \in EntryLayerCoords }
    \cup
    { [key |-> <<"wel">>, data |-> EntryData("df", g, l, <<>>)] :
        g \in EntryPoints, l \in EntryLayerCoords }

\* entries that vary in time: on the grid, in layer 1
TimedEntries(da_key, df_key) ==
    { [key |-> da_key, data |-> EntryData("da", WideGrid, <<1>>, t)] :
        t \in OptionalKey("time", TimeCoords) }
    \cup
    { [key |-> df_key,
       data |-> EntryData("df", [x |-> <<3>>, y |-> <<2>>], <<1>>, t)] :
        t \in OptionalKey("time", TimeCoords) }

BndEntry(layers, grid) ==
    [key |-> <<"bnd">>, data |-> EntryData("da", grid, layers, <<>>)]

\* the models drawn: any bnd, alone or before an entry, or no bnd; a good bnd
\* before or after a placed entry; a good bnd and one or two timed entries
BoundsModels ==
    { <<BndEntry(l, g)>> : l \in BndLayerCoords, g \in BndGrids }
    \cup { <<[key |-> <<"khv">>, data |-> EntryData("da", WideGrid, <<1>>, <<>>)]>> }
    \cup { <<BndEntry(l, WideGrid), e>> : l \in GoodBndLayerCoords, e \in PlacedEntries }
    \cup { <<e, BndEntry(l, WideGrid)>> : l \in GoodBndLayerCoords, e \in PlacedEntries }
    \cup { <<BndEntry(<<1>>, WideGrid), e>> :
             e \in TimedEntries(<<"rch">>, <<"wel">>) }
    \cup { <<BndEntry(<<1>>, WideGrid), e1, e2>> :
             e1 \in TimedEntries(<<"rch">>, <<"wel">>),
             e2 \in TimedEntries(<<"ghb", "-", "cond">>, <<"wel", "-", "sys1">>) }

InitBounds ==
    /\ model \in BoundsModels
    /\ seawat \in BOOLEAN
    /\ bounds = None
    /\ bounds_pc = "start"
    /\ times = <<>>
    /\ CodecIdle /\ ParseIdle /\ TimeIdle /\ PeriodIdle /\ RunIdle /\ GroupIdle /\ SimIdle /\ CacheIdle

\* bounds = _data_bounds(model, seawat)
DataBounds ==
    /\ bounds_pc = "start"
    /\ bounds' = _data_bounds(model, seawat)
    /\ bounds_pc' = "done"
    /\ UNCHANGED <<model, seawat, times, codec_vars, parse_vars, time_vars,
                   period_vars, run_vars, group_vars, sim_vars,
                   cache_vars>>

NextBounds == DataBounds

SpecBounds == InitBounds /\ [][NextBounds]_vars

-----------------------------------------------------------------------------
(* Claims about the bounds                                                  *)

\* the data of bnd, and the entries that are not bnd
BndOf == ModelGet(model, <<"bnd">>)
OtherEntries == {i \in 1..Len(model) : model[i].key # <<"bnd">>}

\* bnd is there, with layers 1..N and a spatial reference
GoodBnd ==
    /\ ModelHas(model, <<"bnd">>)
    /\ IsConsecutive(BndOf.layer)
    /\ spatial_reference(BndOf).ok

\* entry i has an extent, and it lies within or on the extent of bnd
ExtentWithin(i) ==
    /\ entry_extent(model[i].data).ok
    /\ extent_in_bounds(entry_extent(model[i].data).value,
                        spatial_reference(BndOf).value)

\* an entry of the recharge package: the one the top layer -1 is meant for
TopLayerEligible(item) == Split(item.key, "-")[1] = <<"rch">>

\* the layers the claim allows an entry
LayerAllowed(item, v) ==
    \/ 1 <= v /\ v <= Len(BndOf.layer)
    \/ v = -1 /\ TopLayerEligible(item) /\ ~seawat

\* C11 as stated: _data_bounds accepts the layers of an entry if and only if
\* every layer v is in 1..layer_count, or is -1 on an entry eligible for the
\* top layer in non-seawat mode; any other value fails.
C11_LayerAcceptance ==
    (bounds_pc = "done" /\ GoodBnd /\ \A i \in OtherEntries : ExtentWithin(i))
        => (bounds.ok <=>
               \A i \in OtherEntries : \A j \in 1..Len(model[i].data.layer) :
                   LayerAllowed(model[i], model[i].data.layer[j]))

\* the layers of the entries pass the layer test
LayersPass ==
    \A i \in OtherEntries : \A j \in 1..Len(model[i].data.layer) :
        layer_in_bounds(model[i].data.layer[j], BndOf.layer, seawat)

\* an entry within the extent [0, 6] x [0, 4] of the wide grid: the points
\* of a table, the cell edges (midpoint -1 and +1, cells of size 2) of an array
InsideWideGrid(data) ==
    IF data.kind = "df"
    THEN /\ \A i \in 1..Len(data.x) : 0 <= data.x[i] /\ data.x[i] <= 6
         /\ \A i \in 1..Len(data.y) : 0 <= data.y[i] /\ data.y[i] <= 4
    ELSE /\ \A i \in 1..Len(data.x) : 0 <= data.x[i] - 1 /\ data.x[i] + 1 <= 6
         /\ \A i \in 1..Len(data.y) : 0 <= data.y[i] - 1 /\ data.y[i] + 1 <= 4

C13_GridPackage ==
    (bounds_pc = "done" /\ bounds.ok) =>
        /\ ModelHas(model, <<"bnd">>)
        /\ LET N == Cardinality(Symbols(BndOf.layer))
           IN  /\ Symbols(BndOf.layer) = 1..N
               /\ bounds.value.nlay = N
        /\ bounds.value.nrow = Len(BndOf.y)
        /\ bounds.value.ncol = Len(BndOf.x)
        /\ [x |-> BndOf.x, y |-> BndOf.y] = WideGrid =>
              /\ bounds.value.xmin = 2 * 0 /\ bounds.value.xmax = 2 * 6
              /\ bounds.value.ymin = 2 * 0 /\ bounds.value.ymax = 2 * 4

\* bnd with the layers 2, 1 on the wide grid: two layers, two rows, three
\* columns
C13_Witness ==
    /\ bounds_pc = "done"
    /\ bounds.ok
    /\ model[1].key = <<"bnd">>
    /\ model[1].data.layer = <<2, 1>>
    /\ bounds.value.nlay = 2
    /\ bounds.value.nrow = 2
    /\ bounds.value.ncol = 3

\* the time values that occur in any entry of the model
ModelTimes == UNION {TimesOf(model[i].data) : i \in 1..Len(model)}

StrictlyIncreasing(ts) ==
    \A i, j \in 1..Len(ts) : i < j => TimeLeq(ts[i], ts[j]) /\ ts[i] # ts[j]

\* C14: the times _data_bounds returns are the strictly increasing sequence
\* of exactly the distinct time values of all entries, array coordinate or
\* table column, and nper = len(times) - 1; when no entry has a time, no
\* times are returned and nper = 1.
C14_GlobalTimeAxis ==
    (bounds_pc = "done" /\ bounds.ok) =>
        IF ModelTimes = {}
        THEN ~HasKey(bounds.value, "times") /\ bounds.value.nper = 1
        ELSE /\ HasKey(bounds.value, "times")
             /\ StrictlyIncreasing(bounds.value.times)
             /\ Symbols(bounds.value.times) = ModelTimes
             /\ bounds.value.nper = Len(bounds.value.times) - 1

\* an array with two times, the later first, and a table with a third time:
\* three times, two periods
C14_Witness ==
    /\ bounds_pc = "done"
    /\ bounds.ok
    /\ Len(model) = 3
    /\ model[2].data.kind = "da" /\ HasKey(model[2].data, "time")
    /\ Len(model[2].data.time) = 2
    /\ ~TimeLeq(model[2].data.time[1], model[2].data.time[2])
    /\ model[3].data.kind = "df" /\ HasKey(model[3].data, "time")
    /\ Len(bounds.value.times) = 3
    /\ bounds.value.nper = 2

-----------------------------------------------------------------------------
(* imod/run.py: package_schema, default_runfile, _check_input,              *)
(* _pop_package, _get_package, get_runfile.  A mapping from keys to data    *)
(* (the model, a package) is the sequence of its entries [key, data].  The  *)
(* dict default_runfile["output"] is one object of the module: a result     *)
(* holds a reference to it, not a copy.                                     *)

package_schema ==
    [ bnd |-> <<>>, shd |-> <<>>, kdw |-> <<>>, vcw |-> <<>>, khv |-> <<>>,
      kva |-> <<>>, kvv |-> <<>>, sto |-> <<>>, ssc |-> <<>>, top |-> <<>>,
      bot |-> <<>>, pwt |-> <<>>,
      ani |-> [order |-> <<"angle", "factor">>],
      hfb |-> [order |-> <<"factor", "resistance">>] ]

seawat_package_schema ==
    [ bnd |-> <<>>, icbund |-> <<>>, top |-> <<>>, bot |-> <<>>,
      thickness |-> <<>>, shd |-> <<>>, sconc |-> <<>>, khv |-> <<>>,
      kva |-> <<>>, sto |-> <<>>, por |-> <<>>,
      dsp |-> [order |-> <<"al">>] ]

\* str.lower() of a word, and of a key
LowerWord(w) == IF w = "KHV" THEN "khv" ELSE IF w = "BND" THEN "bnd" ELSE w
Lower(k) == [i \in 1..Len(k) |-> LowerWord(k[i])]

\* mapping[k] = v on a mapping of entries: a new key goes last
ModelSet(m, k, v) ==
    IF ModelHas(m, k)
    THEN [i \in 1..Len(m) |-> IF m[i].key = k THEN [key |-> k, data |-> v] ELSE m[i]]
    ELSE Append(m, [key |-> k, data |-> v])

\* the type an entry must have: a DataFrame for wel, a DataArray otherwise
check_input_kind(k, sw) ==
    IF Lower(Split(k, "-")[1]) = <<"wel">> /\ ~sw THEN "df"
    ELSE IF sw /\ Lower(k) = <<"wel", "-", "rate">> THEN "df"
    ELSE "da"

\* the loop of _check_input, from entry i on
RECURSIVE check_input_from(_, _, _, _)
check_input_from(m, sw, i, consumed_model) ==
    IF i > Len(m) THEN Returned(consumed_model)
    ELSE IF m[i].data.kind # check_input_kind(m[i].key, sw)
         THEN RaisedWith("TypeError")
         ELSE Bind(ModelSet(consumed_model, Lower(m[i].key), m[i].data),
                   LAMBDA c : check_input_from(m, sw, i + 1, c))

\* a slip: the model itself is handed on, not a copy
check_input_same_object(m, sw) ==
    Bind(check_input_from(m, sw, 1, <<>>), LAMBDA c :
        IF ~c.ok THEN c ELSE [ok |-> TRUE, value |-> m, same_object |-> TRUE])

\* _check_input(model, seawat): a new mapping with lower case keys
_check_input(m, sw) ==
    Bind(check_input_from(m, sw, 1, <<>>), LAMBDA c :
        IF ~c.ok THEN c
        ELSE [ok |-> TRUE, value |-> c.value, same_object |-> FALSE])

\* _pop_package(model, name): the entries of the package, popped from model
_pop_package(m, name) ==
    [package |-> SelectSeq(m, LAMBDA e : Split(e.key, "-")[1] = <<name>>),
     model   |-> SelectSeq(m, LAMBDA e : Split(e.key, "-")[1] # <<name>>)]

\* the loop of _get_package over the layers of da, from layer j on: every
\* path is composed with the name fullname
RECURSIVE package_layers(_, _, _, _, _)
package_layers(da, fullname, directory, j, single_field) ==
    IF j > Len(da.layer) THEN single_field
    ELSE Bind(OD_Set(single_field, da.layer[j],
                     compose([directory |-> directory, name |-> fullname,
                              layer |-> da.layer[j],
                              extension |-> <<".", "i", "d", "f">>])),
              LAMBDA sf : package_layers(da, fullname, directory, j + 1, sf))

\* the loop of _get_package over the fields of order, from field i on:
\* package[name] or package[name-field], a KeyError when it is not there
RECURSIVE package_fields(_, _, _, _, _, _, _)
package_fields(pkg, name, fullname, order, directory, i, package_data) ==
    IF i > Len(order) THEN Returned(package_data)
    ELSE LET k == IF order[i] = "value" THEN <<name>>
                  ELSE ComposeKey(<< <<name>>, <<order[i]>> >>)
         IN  IF ~ModelHas(pkg, k) THEN RaisedWith("KeyError")
             ELSE Bind(OD_Set(package_data, <<order[i]>>,
                              package_layers(ModelGet(pkg, k), fullname, directory,
                                             1, <<>>)),
                       LAMBDA pd : package_fields(pkg, name, fullname, order,
                                                  directory, i + 1, pd))

\* _get_package(package, directory, package_schema): fullname, name and order
\* are what the loop over the items leaves, those of the last key
_get_package(pkg, directory, sch) ==
    IF pkg = <<>> THEN Returned(<<>>)
    ELSE LET fullname == pkg[Len(pkg)].key
             name     == Split(fullname, "-")[1][1]
             order    == IF OrderOf(sch, name) = <<>> THEN <<"value">>
                         ELSE OrderOf(sch, name)
         IN  package_fields(pkg, name, fullname, order, directory, 1, <<>>)

\* the module-level table default_runfile: "output" is a reference to the
\* one dict object of the module
default_runfile ==
    [ modelname |-> "results", sdate |-> 0, nscl |-> 0, iconchk |-> 0,
      iipf |-> 0, iarmwp |-> 0, nmult |-> 0, idebug |-> 0, iexport |-> 0,
      iposwel |-> 0, iscen |-> 0, outer |-> 150, inner |-> 30,
      hclose |-> "0.001", qclose |-> "100.0", relax |-> "0.98",
      buffer |-> "0.0", output |-> "default_runfile.output" ]

\* the module-level table seawat_default_runfile: it has no "output"
seawat_default_runfile ==
    [ modelname |-> "results", writehelp |-> TRUE, nstp |-> 1, sstr |-> "tr",
      laycbd |-> 0, hnoflo |-> "-9999.0", savehead |-> TRUE,
      saveconclayer |-> TRUE, savebudget |-> FALSE, saveheadtec |-> FALSE,
      saveconctec |-> FALSE, savevxtec |-> FALSE, savevytec |-> FALSE,
      savevztec |-> FALSE, ilpfcb |-> 1, hdry |-> "1e+30", nplpf |-> 0,
      laytyp |-> 0, layavg |-> 0, chani |-> "1.0", layvka |-> 0,
      mxiter |-> 100, iter1 |-> 30, hclose |-> "0.0001", rclose |-> "1.0",
      relax |-> "0.98", nbpol |-> 0, iprpcg |-> 1, mutpcg |-> 1,
      pksf |-> FALSE, mxiterpks |-> 1000, inneritpks |-> 30,
      hclosepks |-> "0.0001", rclosepks |-> "1.0", npc |-> 2, partopt |-> 0,
      pressakey |-> FALSE, cinact |-> "-9999.0", thkmin |-> "0.01",
      nprs |-> 0, ifmtcn |-> -1, chkmas |-> TRUE, nprmas |-> 10,
      nprobs |-> 1, tsmult |-> "1.0", dt0 |-> "0.0", mxstrn |-> "10000.0",
      ttsmult |-> "1.0", ttsmax |-> "0.0", mixelm |-> -1, percel |-> "1.0",
      mxpart |-> 100000, itrack |-> 1, wd |-> "0.5", dceps |-> "0.0001",
      nplane |-> 2, npl |-> 0, nph |-> 8, npmin |-> 0, npmax |-> 16,
      interp |-> 1, nlsink |-> 2, npsink |-> 8, dchmoc |-> "0.001",
      trpt |-> "1.0", trpv |-> "1.0", dmcoef |-> "0.0001",
      mt3d_mxiter |-> 1000, mt3d_iter1 |-> 300, mt3d_isolve |-> 2,
      mtdnconc |-> 1, mfnadvfd |-> 2, nswtcpl |-> 1, iwtable |-> 0,
      densemin |-> "1000.0", densemax |-> "1025.0", denseref |-> "1000.0",
      denseslp |-> "0.7143", mxactd |-> "1000000.0", idrncb |-> 0,
      mxactc |-> "1000000.0", mxactb |-> "1000000.0", ighbcb |-> 0,
      mxactr |-> "1000000.0", irivcb |-> 0, nrchop |-> 3, irchcb |-> 0,
      mxactw |-> "1000000.0", iwelcb |-> 0, mxss |-> "1000000.0" ]

\* the dict default_runfile["output"] as the module defines it: {}
default_runfile_output == <<>>

\* the package names known to the model, in a fixed order
KnownNames == <<"ani", "bnd", "chd", "drn", "foo", "khv", "rch", "riv", "wel">>

Reverse(q) == [i \in 1..Len(q) |-> q[Len(q) + 1 - i]]

\* the order in which a set of names is iterated: it follows the hashes of
\* the strings, which the hash seed of the process fixes
SetOrder(names, seed) ==
    SelectSeq(IF seed = "forward" THEN KnownNames ELSE Reverse(KnownNames),
              LAMBDA n : n \in names)

\* {key.split("-")[0] for key in consumed_model.keys()}
package_names(consumed_model) ==
    {Split(consumed_model[i].key, "-")[1][1] : i \in 1..Len(consumed_model)}

\* an exception that leaves get_runfile: the consumed model is as it was then
RaisedIn(e, consumed_model) ==
    [ok |-> FALSE, error |-> e.error, consumed_model |-> consumed_model]

\* the loop of get_runfile over the package names, from name i of order on
\* sch = [package, period]: the two schemas of the caller
RECURSIVE runfile_packages(_, _, _, _, _, _, _)
runfile_packages(consumed_model, order, ts, i, packages, stress_periods, sch) ==
    IF i > Len(order)
    THEN [ok |-> TRUE, consumed_model |-> consumed_model, packages |-> packages,
          stress_periods |-> stress_periods]
    ELSE LET name == order[i]
         IN  Bind(_pop_package(consumed_model, name), LAMBDA popped :
             IF name \in DOMAIN sch.package
             THEN Bind(_get_package(popped.package, PackageDirectory(name),
                                    sch.package), LAMBDA package_data :
                  IF ~package_data.ok THEN RaisedIn(package_data, popped.model)
                  ELSE Bind(OD_Set(packages, name, package_data.value), LAMBDA ps :
                       runfile_packages(popped.model, order, ts, i + 1, ps,
                                        stress_periods, sch)))
             ELSE IF name \in DOMAIN sch.period
             THEN Bind(_get_period(popped.package, ts, PackageDirectory(name),
                                   sch.period), LAMBDA stress_period_data :
                  IF ~stress_period_data.ok
                  THEN RaisedIn(stress_period_data, popped.model)
                  ELSE Bind(OD_Set(stress_periods, name, stress_period_data.value),
                            LAMBDA sp :
                       runfile_packages(popped.model, order, ts, i + 1, packages,
                                        sp, sch)))
             ELSE RaisedIn(RaisedWith("RuntimeError"), popped.model))

\* bounds as get_runfile takes them over: dy and times popped, dx as cellsize
runfile_bounds(b) ==
    [nrow |-> b.nrow, ncol |-> b.ncol, nlay |-> b.nlay, cellsize |-> b.dx,
     xmin |-> b.xmin, xmax |-> b.xmax, ymin |-> b.ymin, ymax |-> b.ymax,
     nper |-> b.nper]

\* get_runfile(model, directory), the directory being "model", with the dict
\* default_runfile["output"] as it is at the call and the hash seed of the
\* process: the result (value, with its reference to that dict), the dict
\* after the call, and the mapping of the caller after the call
get_runfile(m, output, seed) ==
    Bind(_check_input(m, FALSE), LAMBDA checked :
    IF ~checked.ok
    THEN [ok |-> FALSE, error |-> checked.error, output |-> output, caller |-> m]
    ELSE Bind(_data_bounds(m, FALSE), LAMBDA b :
    IF ~b.ok
    THEN [ok |-> FALSE, error |-> b.error, output |-> output, caller |-> m]
    ELSE LET ts == IF HasKey(b.value, "times") THEN b.value.times ELSE <<>>
         IN  Bind(runfile_packages(checked.value,
                                   SetOrder(package_names(checked.value), seed),
                                   ts, 1, <<>>, <<>>,
                                   [package |-> package_schema,
                                    period |-> stress_period_schema]),
                  LAMBDA done :
             LET caller == IF checked.same_object THEN done.consumed_model ELSE m
             IN  IF ~done.ok
                 THEN [ok |-> FALSE, error |-> done.error, output |-> output,
                       caller |-> caller]
                 ELSE IF done.consumed_model # <<>>
                 THEN [ok |-> FALSE, error |-> "RuntimeError", output |-> output,
                       caller |-> caller]
                 ELSE [ok |-> TRUE,
                       value |->
                          [packages |-> done.packages,
                           stress_periods |-> done.stress_periods,
                           time_discretisation |->
                               IF ts # <<>> THEN _time_discretisation(ts)
                               ELSE << <<"steady-state", 0>> >>]
                          @@ runfile_bounds(b.value) @@ default_runfile,
                       output |-> SetKey(output, "shd", ModelGet(m, <<"bnd">>).layer),
                       caller |-> caller])))

\* max([len(pckg["conc"].keys()) for pckg in stress_periods.values()]):
\* the number of systems of the "conc" field, over the stress-period packages
ncomp(stress_periods) ==
    IF stress_periods = <<>> THEN RaisedWith("ValueError")
    ELSE IF \E i \in 1..Len(stress_periods) : ~OD_Has(stress_periods[i][2], <<"conc">>)
    THEN RaisedWith("KeyError")
    ELSE Returned(SeqMax([i \in 1..Len(stress_periods) |->
                             Len(OD_Get(stress_periods[i][2], <<"conc">>))]))

\* seawat_get_runfile(model, directory), the directory being "model", with
\* the hash seed of the process: the result and the mapping of the caller
\* after the call
seawat_get_runfile(m, seed) ==
    Bind(_check_input(m, TRUE), LAMBDA checked :
    IF ~checked.ok THEN [ok |-> FALSE, error |-> checked.error, caller |-> m]
    ELSE Bind(_data_bounds(m, TRUE), LAMBDA b :
    IF ~b.ok THEN [ok |-> FALSE, error |-> b.error, caller |-> m]
    ELSE LET ts == IF HasKey(b.value, "times") THEN b.value.times ELSE <<>>
         IN  Bind(runfile_packages(checked.value,
                                   SetOrder(package_names(checked.value), seed),
                                   ts, 1, <<>>, <<>>,
                                   [package |-> seawat_package_schema,
                                    period |-> seawat_period_schema]),
                  LAMBDA done :
             LET caller == IF checked.same_object THEN done.consumed_model ELSE m
                 n      == ncomp(done.stress_periods)
             IN  IF ~done.ok
                 THEN [ok |-> FALSE, error |-> done.error, caller |-> caller]
                 ELSE IF done.consumed_model # <<>>
                 THEN [ok |-> FALSE, error |-> "RuntimeError", caller |-> caller]
                 ELSE IF ~n.ok
                 THEN [ok |-> FALSE, error |-> n.error, caller |-> caller]
                 ELSE IF ts = <<>>
                 THEN [ok |-> FALSE, error |-> "ValueError", caller |-> caller]
                 ELSE [ok |-> TRUE,
                       value |->
                          [packages |-> done.packages,
                           stress_periods |-> done.stress_periods,
                           ncomp |-> n.value,
                           time_discretisation |-> _time_discretisation(ts)]
                          @@ DropKey(b.value, "times") @@ seawat_default_runfile,
                       caller |-> caller])))

-----------------------------------------------------------------------------
(* get_runfile as a state machine: one process, in which the caller builds  *)
(* a model and calls get_runfile, several times over.                       *)

MaxCalls == 2

InstantAt(i) == [DateTime(2000, 1, 1, 0, 0, 0) EXCEPT !.day = @ + i]

\* an array entry on the wide grid
ArrayEntry(k, layers, t) == [key |-> k, data |-> EntryData("da", WideGrid, layers, t)]

\* a table entry: one well in layer 1, with times
TableEntry(k, t) ==
    [key |-> k, data |-> EntryData("df", [x |-> <<3>>, y |-> <<2>>], <<1>>, t)]

\* the models of the caller: well formed ones, static and with stress
\* periods, and ones with a key too many, with upper case, with a package
\* that is unknown, without bnd, with a package of the wrong type, with
\* both fields of ani in one layer, with one time only
RunModels ==
    { << BndEntry(<<1>>, WideGrid), ArrayEntry(<<"khv">>, <<1>>, <<>>) >>,
      << BndEntry(<<1, 2>>, WideGrid), ArrayEntry(<<"khv">>, <<1, 2>>, <<>>),
         ArrayEntry(<<"rch">>, <<-1>>, "time" :> <<InstantAt(0), InstantAt(1)>>) >>,
      << BndEntry(<<1>>, WideGrid), ArrayEntry(<<"khv">>, <<1>>, <<>>),
         ArrayEntry(<<"khv", "-", "foo">>, <<1>>, <<>>) >>,
      << BndEntry(<<1>>, WideGrid), ArrayEntry(<<"khv", "-", "foo">>, <<1>>, <<>>),
         ArrayEntry(<<"khv">>, <<1>>, <<>>) >>,
      << BndEntry(<<1>>, WideGrid), ArrayEntry(<<"khv", "-", "foo">>, <<1>>, <<>>) >>,
      << BndEntry(<<1>>, WideGrid), ArrayEntry(<<"foo">>, <<1>>, <<>>) >>,
      << BndEntry(<<1>>, WideGrid),
         ArrayEntry(<<"drn", "-", "bot">>, <<1>>, "time" :> <<InstantAt(0)>>),
         ArrayEntry(<<"drn", "-", "cond">>, <<1>>, <<>>),
         TableEntry(<<"wel">>, "time" :> <<InstantAt(1), InstantAt(1)>>) >>,
      << BndEntry(<<1>>, WideGrid),
         ArrayEntry(<<"drn", "-", "cond", "-", "sys1", "-", "foo">>, <<1>>, <<>>),
         ArrayEntry(<<"drn", "-", "bot">>, <<1>>, <<>>) >>,
      << BndEntry(<<1, 2>>, WideGrid),
         ArrayEntry(<<"ani", "-", "angle">>, <<1>>, <<>>),
         ArrayEntry(<<"ani", "-", "factor">>, <<2>>, <<>>) >>,
      << BndEntry(<<1>>, WideGrid), ArrayEntry(<<"KHV">>, <<1>>, <<>>) >>,
      << [BndEntry(<<1>>, WideGrid) EXCEPT !.key = <<"BND">>],
         ArrayEntry(<<"khv">>, <<1>>, <<>>) >>,
      << BndEntry(<<1>>, WideGrid),
         ArrayEntry(<<"ani", "-", "angle">>, <<1>>, <<>>),
         ArrayEntry(<<"ani", "-", "factor">>, <<1>>, <<>>) >>,
      << BndEntry(<<1>>, WideGrid),
         ArrayEntry(<<"rch">>, <<-1>>, "time" :> <<InstantAt(0)>>) >>,
      << ArrayEntry(<<"khv">>, <<1>>, <<>>) >>,
      << BndEntry(<<1>>, WideGrid), ArrayEntry(<<"wel">>, <<1>>, <<>>) >> }

\* the seawat models of the caller: a well with rates and concentrations
\* at two times, a river stage without concentration, no stress period at
\* all, rates that are no table, an unknown package, no time
SeawatModels ==
    { << BndEntry(<<1>>, WideGrid), ArrayEntry(<<"khv">>, <<1>>, <<>>),
         TableEntry(<<"wel", "-", "rate">>, "time" :> <<InstantAt(0), InstantAt(1)>>),
         ArrayEntry(<<"wel", "-", "conc">>, <<1>>, <<>>) >>,
      << BndEntry(<<1>>, WideGrid),
         ArrayEntry(<<"riv", "-", "stage">>, <<1>>,
                    "time" :> <<InstantAt(0), InstantAt(1)>>) >>,
      << BndEntry(<<1>>, WideGrid), ArrayEntry(<<"khv">>, <<1>>, <<>>) >>,
      << BndEntry(<<1>>, WideGrid),
         ArrayEntry(<<"wel", "-", "rate">>, <<1>>, <<>>) >>,
      << BndEntry(<<1>>, WideGrid), ArrayEntry(<<"foo">>, <<1>>, <<>>),
         ArrayEntry(<<"khv">>, <<1>>, <<>>) >>,
      << BndEntry(<<1>>, WideGrid),
         ArrayEntry(<<"chd", "-", "head">>, <<1>>, <<>>),
         ArrayEntry(<<"chd", "-", "conc">>, <<1>>, <<>>) >> }

InitRunfile ==
    /\ model = <<>>
    /\ model_before = <<>>
    /\ default_output = default_runfile_output
    /\ results = <<>>
    /\ run_fn = "none"
    /\ run_last = None
    /\ hash_seed \in {"forward", "backward"}
    /\ run_calls = 0
    /\ times = <<>>
    /\ CodecIdle /\ ParseIdle /\ TimeIdle /\ PeriodIdle /\ BoundsIdle /\ GroupIdle /\ SimIdle /\ CacheIdle

\* the caller builds the model m and calls get_runfile(m, "model")
GetRunfile ==
    /\ run_calls < MaxCalls
    /\ \E m \in RunModels :
       \E out \in {get_runfile(m, default_output, hash_seed)} :
          /\ model_before' = m
          /\ model' = out.caller
          /\ default_output' = out.output
          /\ run_fn' = "get_runfile"
          /\ run_last' = IF out.ok THEN Returned(out.value) ELSE RaisedWith(out.error)
          /\ results' = IF out.ok
                        THEN Append(results, [input |-> m, value |-> out.value,
                                              returned_output |-> out.output])
                        ELSE results
    /\ run_calls' = run_calls + 1
    /\ UNCHANGED <<hash_seed, times, codec_vars, parse_vars, time_vars,
                   period_vars, bounds_vars, group_vars, sim_vars,
                   cache_vars>>

\* the caller builds the seawat model m and calls
\* seawat_get_runfile(m, "model")
SeawatGetRunfile ==
    /\ run_calls < MaxCalls
    /\ \E m \in SeawatModels :
       \E out \in {seawat_get_runfile(m, hash_seed)} :
          /\ model_before' = m
          /\ model' = out.caller
          /\ run_fn' = "seawat_get_runfile"
          /\ run_last' = IF out.ok THEN Returned(out.value) ELSE RaisedWith(out.error)
    /\ run_calls' = run_calls + 1
    /\ UNCHANGED <<default_output, results, hash_seed, times, codec_vars,
                   parse_vars, time_vars, period_vars, bounds_vars, group_vars, sim_vars,
                   cache_vars>>

NextRunfile == GetRunfile \/ SeawatGetRunfile

SpecRunfile == InitRunfile /\ [][NextRunfile]_vars

-----------------------------------------------------------------------------
(* Claims about get_runfile                                                 *)

\* a key of a static package as its schema entry allows it: the name, then
\* one field of the declared order if the package declares one
StaticKeyAllowed(k) ==
    LET segs == Split(k, "-")
    IN  \E n \in DOMAIN package_schema :
            segs[1] = <<n>> /\ Tail(segs) \in FieldChoices(package_schema, n)

\* a key that one of the two registries allows, whatever its case
KeyAllowed(k) ==
    \/ StaticKeyAllowed(Lower(k))
    \/ WellFormedKey(Lower(k), stress_period_schema)

\* the package names of the two trees of a result
TreeNames(value) ==
    Symbols(OD_Keys(value.packages)) \cup Symbols(OD_Keys(value.stress_periods))

\* C15: when get_runfile returns, every key of the model decomposes exactly
\* into the name, field and system segments that the schema entry of its
\* package allows, in one of the two registries, and the package of every
\* key is in the returned packages or stress_periods tree: a key with a
\* segment left over, or of an unknown package, makes the call fail.
C15_NoKeySilentlyAccepted ==
    (run_fn = "get_runfile" /\ run_last.ok) =>
        \A i \in 1..Len(model_before) :
            /\ KeyAllowed(model_before[i].key)
            /\ Split(Lower(model_before[i].key), "-")[1][1] \in TreeNames(run_last.value)

\* the 'output' mapping of a result as it is now: the result holds the
\* dict of default_runfile, whatever a later call wrote into it
OutputNow(result) ==
    IF result.value.output = "default_runfile.output" THEN default_output
    ELSE result.value.output

\* C17: after any sequence of calls of get_runfile, every result returned
\* so far holds the 'output' mapping it was returned with, the 'output'
\* dict of the module's default_runfile table is empty as at import, and
\* two calls on the same model returned equal packages and stress_periods
\* trees.
C17_NoSharedState ==
    /\ \A i \in 1..Len(results) : OutputNow(results[i]) = results[i].returned_output
    /\ default_output = default_runfile_output
    /\ \A i, j \in 1..Len(results) :
          results[i].input = results[j].input =>
              /\ results[i].value.packages = results[j].value.packages
              /\ results[i].value.stress_periods = results[j].value.stress_periods

\* C18: after get_runfile or seawat_get_runfile returns or raises, the model passed in holds the
\* same keys, in the same order, with the same data as the caller gave it.
C18_ModelReadOnly ==
    run_fn \in {"get_runfile", "seawat_get_runfile"} => model = model_before

\* a call that popped three packages from its copy and returned: the caller
\* still has the three entries
C18_Witness ==
    /\ run_calls > 0
    /\ Len(model_before) = 3
    /\ Len(model) = 3
    /\ run_last.ok
    /\ Len(run_last.value.packages) + Len(run_last.value.stress_periods) = 3

-----------------------------------------------------------------------------
(* imod/wq/pkggroup.py: PackageGroup.  The data of the UserDict is the      *)
(* sequence of its entries [key, value], in insertion order; of a value (a  *)
(* package of one system) the model keeps whether "concentration" is one    *)
(* of its data_vars.                                                        *)

MaxSystems == 3

SystemKeys == {"a", "b", "c"}

\* the loop of reorder_keys from entry i on: the count and the order
RECURSIVE reorder_from(_, _, _, _)
reorder_from(data, i, n_system_concentrations, order) ==
    IF i > Len(data)
    THEN [n_system_concentrations |-> n_system_concentrations, order |-> order]
    ELSE IF data[i].value.concentration
         THEN reorder_from(data, i + 1, n_system_concentrations + 1,
                           <<data[i].key>> \o order)
         ELSE reorder_from(data, i + 1, n_system_concentrations,
                           Append(order, data[i].key))

\* the end of reorder_keys, given the count and the order of the loop
reorder_end(self, r) ==
    IF r.n_system_concentrations > 1 THEN RaisedWith("ValueError")
    ELSE IF r.order = <<>> THEN RaisedWith("IndexError")
    ELSE Returned([data |-> self.data, first_key |-> r.order[1],
                   key_order |-> r.order])

\* a slip: every key is appended, in the order of the entries
reorder_keys_appending(self) ==
    LET r == reorder_from(self.data, 1, 0, <<>>)
    IN  reorder_end(self, [r EXCEPT !.order =
                              [i \in 1..Len(self.data) |-> self.data[i].key]])

\* PackageGroup.reorder_keys: the object with first_key and key_order set,
\* or the exception
reorder_keys(self) == reorder_end(self, reorder_from(self.data, 1, 0, <<>>))

\* PackageGroup(**kwargs)
PackageGroup(kwargs) == reorder_keys([data |-> kwargs])

GroupHas(self, k) == \E i \in 1..Len(self.data) : self.data[i].key = k

\* PackageGroup.render: the number of systems of the header, and for every
\* key of key_order the system rendered, with its system_index
render(self) ==
    IF \E i \in 1..Len(self.key_order) : ~GroupHas(self, self.key_order[i])
    THEN RaisedWith("KeyError")
    ELSE Returned([n_systems |-> Len(self.data),
                   systems |-> [i \in 1..Len(self.key_order) |->
                                   [key |-> self.key_order[i], system_index |-> i]]])

\* the keyword arguments of a construction: up to MaxSystems systems with
\* distinct keys, each with or without concentration
GroupKwargs ==
    UNION { { kw \in [1..n -> [key : SystemKeys,
                               value : [concentration : BOOLEAN]]] :
                \A i, j \in 1..n : i # j => kw[i].key # kw[j].key } :
            n \in 0..MaxSystems }

InitGroup ==
    /\ group_kwargs \in GroupKwargs
    /\ group = None
    /\ rendered = None
    /\ group_pc = "start"
    /\ seawat_items = <<>> /\ package_groups = None
    /\ times = <<>>
    /\ CodecIdle /\ ParseIdle /\ TimeIdle /\ PeriodIdle /\ ModelIdle /\ SimIdle /\ CacheIdle

\* group = PackageGroup(**group_kwargs)
Construct ==
    /\ group_pc = "start"
    /\ group' = PackageGroup(group_kwargs)
    /\ group_pc' = "built"
    /\ UNCHANGED <<group_kwargs, rendered, seawat_items, package_groups, times,
                   codec_vars, parse_vars, time_vars, period_vars, model_vars,
                   sim_vars,
                   cache_vars>>

\* rendered = group.render(directory, globaltimes, nlayer)
Render ==
    /\ group_pc = "built"
    /\ group.ok
    /\ rendered' = render(group.value)
    /\ group_pc' = "rendered"
    /\ UNCHANGED <<group_kwargs, group, seawat_items, package_groups, times,
                   codec_vars, parse_vars, time_vars, period_vars, model_vars,
                   sim_vars,
                   cache_vars>>

NextGroup == Construct \/ Render

SpecGroup == InitGroup /\ [][NextGroup]_vars

-----------------------------------------------------------------------------
(* Claims about PackageGroup                                                *)

\* the keys of the systems that carry a concentration
ConcentrationKeys ==
    {group_kwargs[i].key :
        i \in {j \in 1..Len(group_kwargs) : group_kwargs[j].value.concentration}}

\* C16: after PackageGroup is constructed from systems of which exactly one
\* carries "concentration", key_order[0] and first_key are the key of that
\* system, and render renders it first, with system index 1; with more than
\* one such system the construction fails with an error.
C16_GroupingReorder ==
    group_pc \in {"built", "rendered"} =>
        /\ Cardinality(ConcentrationKeys) = 1 =>
              /\ group.ok
              /\ group.value.key_order[1] \in ConcentrationKeys
              /\ group.value.first_key \in ConcentrationKeys
              /\ group_pc = "rendered" =>
                    /\ rendered.ok
                    /\ rendered.value.systems[1].key \in ConcentrationKeys
                    /\ rendered.value.systems[1].system_index = 1
        /\ Cardinality(ConcentrationKeys) > 1 =>
              ~group.ok /\ group.error = "ValueError"

\* three systems of which only the second, "b", carries a concentration
C16_Witness ==
    /\ group_pc = "rendered"
    /\ Len(group_kwargs) = 3
    /\ ConcentrationKeys = {"b"}
    /\ group_kwargs[2].key = "b"
    /\ group.value.key_order[1] = "b"
    /\ group.value.first_key = "b"
    /\ rendered.value.systems[1] = [key |-> "b", system_index |-> 1]

-----------------------------------------------------------------------------
(* Claims about util.compose                                                *)

\* stamp is the time t as YYYYMMDDHHMMSS: fourteen digits that read back as
\* t to the second
IsTimeStamp(stamp, t) ==
    /\ Len(stamp) = 14
    /\ \A i \in 1..14 : IsDigit(stamp[i])
    /\ Strptime(stamp, FormatDateTime) = Returned([t EXCEPT !.sub = 0])

\* name[_time][_l<layer>]extension of a parts record
FilenameOf(p) ==
    p.name
    \o (IF HasKey(p, "time") THEN <<"_">> \o Strftime(p.time) ELSE <<>>)
    \o (IF HasKey(p, "layer") THEN <<"_", "l">> \o IntStr(p.layer) ELSE <<>>)
    \o p.extension

\* C19: compose builds the filename as the name, then "_" and the time as
\* YYYYMMDDHHMMSS if there is a time, then "_l" and the integer layer if
\* there is a layer, then the extension; it returns the filename joined to
\* the directory as a path when there is a directory, and the filename as a
\* string when there is none.
C19_FilenameFormat ==
    codec_pc \in {"composed", "decomposed"} =>
        /\ HasKey(parts, "time") => IsTimeStamp(Strftime(parts.time), parts.time)
        /\ path = IF HasKey(parts, "directory")
                  THEN [type |-> "Path",
                        path |-> JoinPath(parts.directory, FilenameOf(parts))]
                  ELSE [type |-> "str", path |-> PathOf(FilenameOf(parts))]

\* a record with a directory, a time and a layer: path/to/hd_<time>_l12.idf
C19_Witness ==
    /\ codec_pc = "composed"
    /\ DOMAIN parts = {"directory", "name", "time", "layer", "extension"}
    /\ parts.name = <<"h", "d">>
    /\ parts.layer = MaxLayer
    /\ parts.time = DateTime(2018, 2, 22, 9, 6, 57)
    /\ parts.directory = << <<"path">>, <<"to">> >>
    /\ path.type = "Path"
    /\ path.path[3] = <<"h", "d", "_",
                        "2", "0", "1", "8", "0", "2", "2", "2", "0", "9", "0", "6", "5", "7",
                        "_", "l", "1", "2", ".", "i", "d", "f">>

\* C20: compose leaves the parts record handed to it as it was: the same
\* keys with the same values.
C20_ComposeLeavesParts ==
    codec_pc \in {"composed", "decomposed"} => d = parts

-----------------------------------------------------------------------------
(* Claims about util.decompose                                              *)

\* s parses as a time, under either format
ParsesAsTime(s) == Strptime(s, FormatDateTime).ok \/ Strptime(s, FormatDate).ok

\* the time s parses as: %Y%m%d%H%M%S first, else %Y%m%d
TimeParsed(s) ==
    IF Strptime(s, FormatDateTime).ok THEN Strptime(s, FormatDateTime).value
    ELSE Strptime(s, FormatDate).value

\* C21: decompose takes the name from the first "_"-separated segment of
\* the stem and the time only from the segments after it: the first later
\* segment that parses as YYYYMMDDHHMMSS, else as YYYYMMDD, is the time; the
\* name segment is never read as a time, and when no later segment parses
\* the result has no time key.
C21_TimeFromLaterSegments ==
    (codec_pc = "decomposed" /\ decomposed.ok) =>
        LET segs  == Split(Stem(path.path), "_")
            later == Tail(segs)
            hits  == {i \in 1..Len(later) : ParsesAsTime(later[i])}
        IN  /\ decomposed.value.name = segs[1]
            /\ IF hits = {}
               THEN ~HasKey(decomposed.value, "time")
               ELSE /\ HasKey(decomposed.value, "time")
                    /\ decomposed.value.time =
                          TimeParsed(later[CHOOSE i \in hits : \A j \in hits : i <= j])

-----------------------------------------------------------------------------
(* Claims about the durations of the stress periods                         *)

\* end - start in tenths of a second
SpanTenths(start, end) ==
    ((end.day - start.day) * 86400 + (end.sec - start.sec)) * 10
    + (end.sub - start.sub)

\* the sum of the durations of an OrderedDict of periods, in 1/86400 days
RECURSIVE SumDurations(_)
SumDurations(od) ==
    IF od = <<>> THEN 0 ELSE od[1][2] + SumDurations(Tail(od))

\* C22: for each consecutive pair (start, end) of the sorted global times
\* the period labelled with start has the duration end - start, in days, and
\* the durations of all periods sum to the span between the first and the
\* last global time.
C22_DurationIsSpan ==
    time_pc = "done" =>
        LET od == discretised.value
        IN  /\ \A i \in 1..(Len(times) - 1) :
                  /\ OD_Has(od, Strftime(times[i]))
                  /\ 10 * OD_Get(od, Strftime(times[i]))
                        = SpanTenths(times[i], times[i + 1])
            /\ 10 * SumDurations(od) = SpanTenths(times[1], times[Len(times)])

-----------------------------------------------------------------------------
(* imod/mf6/simulation.py: Modflow6Simulation.  A simulation is the record  *)
(* [name, directory, data]: data is the sequence of the entries [key, ref]  *)
(* of the UserDict, ref the place of the package or model object among      *)
(* objects; two simulations that hold the same ref hold the same object.    *)
(* An object is [kind, pkg_id, state, modelnames, part]: kind "model" is a  *)
(* Modflow6Model, kind "package" a Package.                                 *)

MaxSims == 3
MaxSimCalls == 3
MaxPartitions == 2

\* self.directory = None
NoDirectory == "None"

SimDirectories == {"dir_a", "dir_b"}

\* Modflow6Simulation(name)
Modflow6Simulation(name) == [name |-> name, directory |-> NoDirectory, data |-> <<>>]

\* self[key] = value
SimSet(sim, k, ref) ==
    [sim EXCEPT !.data =
        IF \E i \in 1..Len(sim.data) : sim.data[i].key = k
        THEN [i \in 1..Len(sim.data) |->
                 IF sim.data[i].key = k THEN [key |-> k, ref |-> ref] ELSE sim.data[i]]
        ELSE Append(sim.data, [key |-> k, ref |-> ref])]

SimHas(sim, k) == \E i \in 1..Len(sim.data) : sim.data[i].key = k

SimGet(sim, k) == sim.data[CHOOSE i \in 1..Len(sim.data) : sim.data[i].key = k].ref

\* get_models(simulation), get_packages(simulation): the entries, in order
get_models(sim, objs) == SelectSeq(sim.data, LAMBDA e : objs[e.ref].kind = "model")

get_packages(sim, objs) == SelectSeq(sim.data, LAMBDA e : objs[e.ref].kind = "package")

\* model._model_checks(key) of every model: the first exception, if any
model_checks(sim, objs) ==
    IF \E i \in 1..Len(sim.data) :
          objs[sim.data[i].ref].kind = "model" /\ objs[sim.data[i].ref].state = "unchecked"
    THEN RaisedWith("ValueError") ELSE Returned(TRUE)

\* status_info.has_errors() after the loop over the models
has_errors(sim, objs, validate) ==
    validate /\ \E i \in 1..Len(sim.data) :
                   objs[sim.data[i].ref].kind = "model"
                   /\ objs[sim.data[i].ref].state = "invalid"

\* a slip: the directory is stored before the simulation is written
write_directory_first(sim, objs, directory, validate) ==
    IF ~model_checks(sim, objs).ok
    THEN [ok |-> FALSE, error |-> "ValueError",
          sim |-> [sim EXCEPT !.directory = directory]]
    ELSE IF ~SimHas(sim, <<"time_discretization">>)
    THEN [ok |-> FALSE, error |-> "KeyError",
          sim |-> [sim EXCEPT !.directory = directory]]
    ELSE IF has_errors(sim, objs, validate)
    THEN [ok |-> FALSE, error |-> "ValidationError",
          sim |-> [sim EXCEPT !.directory = directory]]
    ELSE [ok |-> TRUE, sim |-> [sim EXCEPT !.directory = directory]]

\* Modflow6Simulation.write(directory, validate=validate): whether it
\* returned, and the simulation after the call
write(sim, objs, directory, validate) ==
    IF ~model_checks(sim, objs).ok
    THEN [ok |-> FALSE, error |-> "ValueError", sim |-> sim]
    ELSE IF ~SimHas(sim, <<"time_discretization">>)
    THEN [ok |-> FALSE, error |-> "KeyError", sim |-> sim]
    ELSE IF has_errors(sim, objs, validate)
    THEN [ok |-> FALSE, error |-> "ValidationError", sim |-> sim]
    ELSE [ok |-> TRUE, sim |-> [sim EXCEPT !.directory = directory]]

\* Modflow6Simulation.run(): whether the subprocess was started, in which
\* working directory, and whether run returned; returncode is what the
\* solver exits with
run(sim, returncode) ==
    IF sim.directory = NoDirectory
    THEN [ok |-> FALSE, error |-> "RuntimeError", started |-> FALSE]
    ELSE IF returncode # 0
    THEN [ok |-> FALSE, error |-> "RuntimeError", started |-> TRUE,
          cwd |-> sim.directory]
    ELSE [ok |-> TRUE, started |-> TRUE, cwd |-> sim.directory]


\* a new object made from the object o by clip_box, slice_model or
\* regrid_like: the same kind and id, its content that of the part
Derived(o, part) == [o EXCEPT !.part = part]

\* the loop of clip_box over self.items(), from entry i on
RECURSIVE clip_items(_, _, _, _)
clip_items(sim, objs, i, clipped) ==
    IF i > Len(sim.data) THEN [sim |-> clipped, objects |-> objs]
    ELSE Bind(Append(objs, Derived(objs[sim.data[i].ref], "clipped")), LAMBDA o2 :
         Bind(SimSet(clipped, sim.data[i].key, Len(o2)), LAMBDA c2 :
              clip_items(sim, o2, i + 1, c2)))

\* Modflow6Simulation.clip_box(...): the new simulation and the objects
clip_box(sim, objs) == clip_items(sim, objs, 1, Modflow6Simulation(sim.name))

\* for package_name, package in {**packages}.items(): from entry i on
RECURSIVE split_packages(_, _, _)
split_packages(packages, i, new_simulation) ==
    IF i > Len(packages) THEN new_simulation
    ELSE split_packages(packages, i + 1,
                        SimSet(new_simulation, packages[i].key, packages[i].ref))

\* the loops of split over the partitions and the models, from model j of
\* partition id on: the new simulation, the objects and the model names
RECURSIVE split_models(_, _, _, _, _, _, _)
split_models(models, n, id, j, new_simulation, objs, model_names) ==
    IF id >= n
    THEN [sim |-> new_simulation, objects |-> objs, model_names |-> model_names]
    ELSE IF j > Len(models)
    THEN split_models(models, n, id + 1, 1, new_simulation, objs, model_names)
    ELSE Bind(models[j].key \o <<"_", id>>, LAMBDA model_name :
         Bind(Append(objs, Derived(objs[models[j].ref], id)), LAMBDA o2 :
         Bind(SimSet(new_simulation, model_name, Len(o2)), LAMBDA s2 :
              split_models(models, n, id, j + 1, s2, o2,
                           Append(model_names, model_name)))))

\* Modflow6Simulation.split(submodel_labels), the labels naming n
\* partitions 0..n-1: the new simulation and the objects after the call
split(sim, objs, n) ==
    Bind(split_packages(get_packages(sim, objs), 1,
                        Modflow6Simulation(sim.name \o <<"_partioned">>)),
         LAMBDA base :
    Bind(split_models(get_models(sim, objs), n, 0, 1, base, objs, <<>>),
         LAMBDA r :
        IF ~SimHas(r.sim, <<"solver">>)
        THEN [ok |-> FALSE, error |-> "KeyError", objects |-> r.objects]
        ELSE [ok |-> TRUE, sim |-> r.sim,
              objects |-> [r.objects EXCEPT ![SimGet(r.sim, <<"solver">>)].modelnames
                                                = r.model_names]]))

\* the loop of regrid_like over self.items(), from entry i on
RECURSIVE regrid_items(_, _, _, _)
regrid_items(sim, objs, i, result) ==
    IF i > Len(sim.data) THEN [ok |-> TRUE, sim |-> result, objects |-> objs]
    ELSE LET item == objs[sim.data[i].ref]
         IN  IF item.pkg_id = "gwf"
             THEN Bind(Append(objs, Derived(item, "regridded")), LAMBDA o2 :
                  Bind(SimSet(result, sim.data[i].key, Len(o2)), LAMBDA r2 :
                       regrid_items(sim, o2, i + 1, r2)))
             ELSE IF item.pkg_id \in {"ims", "tdis"}
             THEN Bind(Append(objs, item), LAMBDA o2 :
                  Bind(SimSet(result, sim.data[i].key, Len(o2)), LAMBDA r2 :
                       regrid_items(sim, o2, i + 1, r2)))
             ELSE [ok |-> FALSE, error |-> "NotImplementedError", objects |-> objs]

\* Modflow6Simulation.regrid_like(name, target_grid)
regrid_like(sim, objs, regridded_simulation_name) ==
    regrid_items(sim, objs, 1, Modflow6Simulation(regridded_simulation_name))


-----------------------------------------------------------------------------
(* Modflow6Simulation as a state machine: one process that builds a         *)
(* simulation and then calls write, run, clip_box, split and regrid_like    *)
(* on the simulations it has, in any order.                                 *)

\* the states of a model: complete and valid, failing _model_checks, failing
\* validation at write
ModelStates == {"ok", "unchecked", "invalid"}

GwfModel(state) ==
    [kind |-> "model", pkg_id |-> "gwf", state |-> state, modelnames |-> <<>>,
     part |-> "all"]

GwtModel ==
    [kind |-> "model", pkg_id |-> "gwt", state |-> "ok", modelnames |-> <<>>,
     part |-> "all"]

Solution(modelnames) ==
    [kind |-> "package", pkg_id |-> "ims", state |-> "ok",
     modelnames |-> modelnames, part |-> "all"]

TimeDiscretization ==
    [kind |-> "package", pkg_id |-> "tdis", state |-> "ok", modelnames |-> <<>>,
     part |-> "all"]

\* the simulations the caller builds: a flow model, a solver and a time
\* discretization, as the circle model; also with a transport model, and
\* without the solver
SimBuilds ==
    { [objects |-> <<GwfModel(st), Solution(<< <<"GWF_1">> >>), TimeDiscretization>>,
       data |-> << [key |-> <<"GWF_1">>, ref |-> 1], [key |-> <<"solver">>, ref |-> 2],
                   [key |-> <<"time_discretization">>, ref |-> 3] >>] :
        st \in ModelStates }
    \cup
    { [objects |-> <<GwfModel("ok"), GwtModel,
                     Solution(<< <<"GWF_1">>, <<"GWT_1">> >>), TimeDiscretization>>,
       data |-> << [key |-> <<"GWF_1">>, ref |-> 1], [key |-> <<"GWT_1">>, ref |-> 2],
                   [key |-> <<"solver">>, ref |-> 3],
                   [key |-> <<"time_discretization">>, ref |-> 4] >>],
      [objects |-> <<GwfModel("ok"), TimeDiscretization>>,
       data |-> << [key |-> <<"GWF_1">>, ref |-> 1],
                   [key |-> <<"time_discretization">>, ref |-> 2] >>] }

InitSim ==
    /\ \E b \in SimBuilds :
          /\ sims = << [Modflow6Simulation(<<"sim">>) EXCEPT !.data = b.data] >>
          /\ objects = b.objects
    /\ sim_log = <<>>
    /\ split_last = None
    /\ sim_calls = 0
    /\ times = <<>>
    /\ CodecIdle /\ ParseIdle /\ TimeIdle /\ PeriodIdle /\ ModelIdle /\ GroupIdle
    /\ CacheIdle

OtherVarsUnchanged ==
    UNCHANGED <<times, codec_vars, parse_vars, time_vars, period_vars,
                model_vars, group_vars, cache_vars>>

\* sims[s].write(directory, validate=validate)
SimWrite ==
    /\ sim_calls < MaxSimCalls
    /\ \E s \in 1..Len(sims), directory \in SimDirectories, validate \in BOOLEAN :
       \E w \in {write(sims[s], objects, directory, validate)} :
          /\ sims' = [sims EXCEPT ![s] = w.sim]
          /\ sim_log' = Append(sim_log, [op |-> "write", sim |-> s,
                                         directory |-> directory, ok |-> w.ok])
    /\ sim_calls' = sim_calls + 1
    /\ UNCHANGED <<objects, split_last>>
    /\ OtherVarsUnchanged

\* sims[s].run(): the solver exits with returncode
SimRun ==
    /\ sim_calls < MaxSimCalls
    /\ \E s \in 1..Len(sims), returncode \in {0, 1} :
       \E r \in {run(sims[s], returncode)} :
          sim_log' = Append(sim_log,
                            [op |-> "run", sim |-> s, ok |-> r.ok,
                             started |-> r.started,
                             directory |-> IF r.started THEN r.cwd ELSE NoDirectory])
    /\ sim_calls' = sim_calls + 1
    /\ UNCHANGED <<sims, objects, split_last>>
    /\ OtherVarsUnchanged

\* sims := sims + [sims[s].clip_box(...)]
SimClipBox ==
    /\ sim_calls < MaxSimCalls
    /\ Len(sims) < MaxSims
    /\ \E s \in 1..Len(sims) :
       \E c \in {clip_box(sims[s], objects)} :
          /\ sims' = Append(sims, c.sim)
          /\ objects' = c.objects
    /\ sim_calls' = sim_calls + 1
    /\ UNCHANGED <<sim_log, split_last>>
    /\ OtherVarsUnchanged

\* the content of a simulation: its name, its directory, and for every key
\* the object it holds
SimContent(sim, objs) ==
    [name |-> sim.name, directory |-> sim.directory,
     items |-> [i \in 1..Len(sim.data) |->
                   [key |-> sim.data[i].key, value |-> objs[sim.data[i].ref]]]]

\* sims := sims + [sims[s].split(submodel_labels)], the labels naming n
\* partitions
SimSplit ==
    /\ sim_calls < MaxSimCalls
    /\ Len(sims) < MaxSims
    /\ \E s \in 1..Len(sims), n \in 1..MaxPartitions :
       \E r \in {split(sims[s], objects, n)} :
          /\ sims' = IF r.ok THEN Append(sims, r.sim) ELSE sims
          /\ objects' = r.objects
          /\ split_last' = [ok |-> r.ok, of |-> s, partitions |-> n,
                            before |-> SimContent(sims[s], objects)]
    /\ sim_calls' = sim_calls + 1
    /\ UNCHANGED sim_log
    /\ OtherVarsUnchanged

\* sims := sims + [sims[s].regrid_like("regridded", target_grid)]
SimRegridLike ==
    /\ sim_calls < MaxSimCalls
    /\ Len(sims) < MaxSims
    /\ \E s \in 1..Len(sims) :
       \E r \in {regrid_like(sims[s], objects, <<"regridded">>)} :
          /\ sims' = IF r.ok THEN Append(sims, r.sim) ELSE sims
          /\ objects' = r.objects
    /\ sim_calls' = sim_calls + 1
    /\ UNCHANGED <<sim_log, split_last>>
    /\ OtherVarsUnchanged

NextSim == SimWrite \/ SimRun \/ SimClipBox \/ SimSplit \/ SimRegridLike

SpecSim == InitSim /\ [][NextSim]_vars


\* the writes of simulation s before position i of the log that returned
WritesBefore(s, i) ==
    { j \in 1..(i - 1) :
        sim_log[j].op = "write" /\ sim_log[j].sim = s /\ sim_log[j].ok }

\* C23: run starts the solver only when an earlier write on the same
\* simulation object returned without raising, and then in the directory of
\* the latest such write; otherwise it raises and starts nothing. A write
\* that raised does not count, and a simulation made by clip_box, split or
\* regrid_like is unwritten until it is written itself.
C23_WriteBeforeRun ==
    \A i \in 1..Len(sim_log) :
        sim_log[i].op = "run" =>
            LET w == WritesBefore(sim_log[i].sim, i) IN
            IF w = {}
            THEN ~sim_log[i].started /\ ~sim_log[i].ok
            ELSE /\ sim_log[i].started
                 /\ sim_log[i].directory =
                        sim_log[CHOOSE j \in w : \A k \in w : k <= j].directory

\* a write that raised, then a run on the same simulation that raised
\* without starting the solver, then a write that returned
C23_Witness ==
    /\ Len(sim_log) = 3
    /\ sim_log[1].op = "write" /\ ~sim_log[1].ok /\ sim_log[1].sim = 1
    /\ sim_log[2].op = "run" /\ ~sim_log[2].started /\ sim_log[2].sim = 1
    /\ sim_log[3].op = "write" /\ sim_log[3].ok /\ sim_log[3].sim = 1

\* C30: split leaves the simulation it is called on unchanged: after a split
\* that returned, the original holds the same keys and the same content
\* under every key as before the call, its "solver" still listing the
\* original model names.
C30_SplitLeavesOriginal ==
    (split_last # None /\ split_last.ok) =>
        SimContent(sims[split_last.of], objects) = split_last.before


-----------------------------------------------------------------------------
(* PackageGroup with later insertions and deletions: the object is a        *)
(* UserDict, so group[k] = v and del group[k] act on its data only.         *)

\* UserDict.__setitem__: the value of an existing key is replaced in place,
\* a new key is appended
group_setitem(self, k, v) ==
    IF GroupHas(self, k)
    THEN [self EXCEPT !.data = [i \in 1..Len(self.data) |->
                                   IF self.data[i].key = k
                                   THEN [key |-> k, value |-> v]
                                   ELSE self.data[i]]]
    ELSE [self EXCEPT !.data = Append(self.data, [key |-> k, value |-> v])]

\* UserDict.__delitem__ of a key of the group
group_delitem(self, k) ==
    [self EXCEPT !.data = SelectSeq(self.data, LAMBDA e : e.key # k)]

\* group[k] = v
SetItem ==
    /\ group_pc = "built"
    /\ group.ok
    /\ \E k \in SystemKeys, c \in BOOLEAN :
          group' = Returned(group_setitem(group.value, k, [concentration |-> c]))
    /\ UNCHANGED <<group_kwargs, rendered, group_pc, seawat_items, package_groups,
                   times, codec_vars, parse_vars, time_vars, period_vars,
                   model_vars, sim_vars,
                   cache_vars>>

\* del group[k], for a key k of the group
DelItem ==
    /\ group_pc = "built"
    /\ group.ok
    /\ \E k \in SystemKeys :
          /\ GroupHas(group.value, k)
          /\ group' = Returned(group_delitem(group.value, k))
    /\ UNCHANGED <<group_kwargs, rendered, group_pc, seawat_items, package_groups,
                   times, codec_vars, parse_vars, time_vars, period_vars,
                   model_vars, sim_vars,
                   cache_vars>>

NextGroupEdit == Construct \/ SetItem \/ DelItem \/ Render

SpecGroupEdit == InitGroup /\ [][NextGroupEdit]_vars

\* the keys of a sequence of keys, and of the entries of a group
KeySet(order) == {order[i] : i \in 1..Len(order)}

GroupKeys(self) == {self.data[i].key : i \in 1..Len(self.data)}

\* C27: after construction and after any insertions and deletions key_order
\* is a permutation of the current keys of the group, and render returns one
\* system block for each of the n_systems it reports, numbered 1..n_systems.
C27_KeyOrderIsPermutation ==
    /\ (group_pc \in {"built", "rendered"} /\ group.ok) =>
          /\ Len(group.value.key_order) = Len(group.value.data)
          /\ KeySet(group.value.key_order) = GroupKeys(group.value)
    /\ (group_pc = "rendered") =>
          /\ rendered.ok
          /\ Len(rendered.value.systems) = rendered.value.n_systems
          /\ \A i \in 1..Len(rendered.value.systems) :
                rendered.value.systems[i].system_index = i


-----------------------------------------------------------------------------
(* imod/model.py: SeawatModel._group.  A _pkg_id is the sequence of its     *)
(* characters; the entries of the model are [key, pkg_id] in insertion      *)
(* order; groups is the dict of the first loop, in insertion order, each    *)
(* value the dict {key: package} as the sequence of its keys.               *)

MaxPackages == 3

\* PackageGroups.__members__.keys()
groupable ==
    { <<"c", "h", "d">>, <<"d", "r", "n">>, <<"g", "h", "b">>,
      <<"r", "i", "v">>, <<"w", "e", "l">> }

GroupsHas(groups, pkg_id) == \E i \in 1..Len(groups) : groups[i].pkg_id = pkg_id

\* groups[pkg_id] = value: in place for a pkg_id of the dict, else appended
GroupsSet(groups, pkg_id, value) ==
    IF GroupsHas(groups, pkg_id)
    THEN [i \in 1..Len(groups) |->
             IF groups[i].pkg_id = pkg_id
             THEN [pkg_id |-> pkg_id, keys |-> value] ELSE groups[i]]
    ELSE Append(groups, [pkg_id |-> pkg_id, keys |-> value])

GroupsGet(groups, pkg_id) ==
    groups[CHOOSE i \in 1..Len(groups) : groups[i].pkg_id = pkg_id].keys

\* the first loop of _group from entry i on; has_group.update(pkg_id) adds
\* the characters of pkg_id to the set, and pkg_id in has_group looks the
\* whole pkg_id up among them
RECURSIVE group_collect(_, _, _, _)
group_collect(items, i, groups, has_group) ==
    IF i > Len(items) THEN groups
    ELSE LET pkg_id == items[i].pkg_id IN
         IF pkg_id \in groupable
         THEN IF \E ch \in has_group : pkg_id = <<ch>>
              THEN group_collect(items, i + 1,
                       GroupsSet(groups, pkg_id,
                                 Append(GroupsGet(groups, pkg_id), items[i].key)),
                       has_group)
              ELSE group_collect(items, i + 1,
                       GroupsSet(groups, pkg_id, <<items[i].key>>),
                       has_group \cup {pkg_id[j] : j \in 1..Len(pkg_id)})
         ELSE group_collect(items, i + 1, groups, has_group)

\* the second loop of _group: "for pkg_id, group in groups" iterates the
\* keys of the dict and unpacks each, a string, into two names; with two
\* characters the first is looked up in _PACKAGE_GROUPS, which has no such
\* member
group_create(groups) ==
    IF groups = <<>> THEN Returned(<<>>)
    ELSE IF Len(groups[1].pkg_id) # 2 THEN RaisedWith("ValueError")
    ELSE RaisedWith("KeyError")

\* SeawatModel._group(): the list of the groups made, each with its pkg_id
\* and the keys of its packages, or the exception
_group(items) == group_create(group_collect(items, 1, <<>>, {}))

\* the packages of a model: up to MaxPackages entries with distinct keys
PackageIds == { <<"r", "i", "v">>, <<"d", "r", "n">>, <<"b", "a", "s">> }

SeawatItems ==
    UNION { { it \in [1..n -> [key : SystemKeys, pkg_id : PackageIds]] :
                \A i, j \in 1..n : i # j => it[i].key # it[j].key } :
            n \in 0..MaxPackages }

InitGrouping ==
    /\ seawat_items \in SeawatItems
    /\ package_groups = None
    /\ group_kwargs = <<>> /\ group = None /\ rendered = None /\ group_pc = "idle"
    /\ times = <<>>
    /\ CodecIdle /\ ParseIdle /\ TimeIdle /\ PeriodIdle /\ ModelIdle /\ SimIdle /\ CacheIdle

\* package_groups = model._group()
Group ==
    /\ package_groups = None
    /\ package_groups' = _group(seawat_items)
    /\ UNCHANGED <<group_kwargs, group, rendered, group_pc, seawat_items, times,
                   codec_vars, parse_vars, time_vars, period_vars, model_vars,
                   sim_vars,
                   cache_vars>>

NextGrouping == Group

SpecGrouping == InitGrouping /\ [][NextGrouping]_vars

\* the keys of the packages of the model with the given pkg_id, in order
KeysOfKind(pkg_id) ==
    LET sel == SelectSeq(seawat_items, LAMBDA e : e.pkg_id = pkg_id)
    IN  [i \in 1..Len(sel) |-> sel[i].key]

\* C26: _group returns one group per groupable _pkg_id present in the model,
\* and the group of a _pkg_id holds exactly the packages of the model with
\* that _pkg_id, under their model keys.
C26_OneGroupPerKind ==
    package_groups # None =>
        /\ package_groups.ok
        /\ \A pkg_id \in groupable :
              LET gs == SelectSeq(package_groups.value,
                                  LAMBDA g : g.pkg_id = pkg_id)
              IN  IF KeysOfKind(pkg_id) = <<>>
                  THEN gs = <<>>
                  ELSE Len(gs) = 1 /\ gs[1].keys = KeysOfKind(pkg_id)


-----------------------------------------------------------------------------
(* Claims about get_runfile: paths of static fields, case of keys, periods  *)

\* C25: in the tree of a static package with several fields, the paths of
\* two different fields at one layer differ: each is composed from the key
\* of its own field.
C25_FieldPathsDistinct ==
    \A r \in 1..Len(results) :
        LET packages == results[r].value.packages IN
        \A p \in 1..Len(packages) :
            LET t == packages[p][2] IN
            \A f, g \in 1..Len(t) :
                f # g =>
                    \A l \in 1..NumLayers :
                        (OD_Has(t[f][2], l) /\ OD_Has(t[g][2], l)) =>
                            OD_Get(t[f][2], l) # OD_Get(t[g][2], l)

\* the model with every key in lower case
LowerModel(m) == [i \in 1..Len(m) |-> [key |-> Lower(m[i].key), data |-> m[i].data]]

\* C28: get_runfile on a model with keys in upper case does what it does on
\* the same model with the keys in lower case: accepted alike, with the same
\* bounds and the same trees of paths.
C28_KeysCaseInsensitive ==
    (run_fn = "get_runfile" /\ model_before # LowerModel(model_before)) =>
        LET low == get_runfile(LowerModel(model_before), default_runfile_output,
                               hash_seed)
        IN  /\ run_last.ok = low.ok
            /\ low.ok => run_last.value = low.value

\* C29: the parameters get_runfile returns have nper >= 1, also for a model
\* whose entries carry one time value only.
C29_AtLeastOnePeriod ==
    (run_fn = "get_runfile" /\ run_last.ok) => run_last.value.nper >= 1


-----------------------------------------------------------------------------
(* The caching layer of the wq packages (imod.wq.caching), as the spec and  *)
(* the test suite describe it: a package loaded with from_file(path,        *)
(* cache) carries the hash of the file it was loaded from, and its          *)
(* _max_active_n looks (hash, arguments) up in the cache before computing.  *)

MaxCacheCalls == 3

\* the contents of the package file: for each variable the number of
\* active cells of a layer
FileContents == [stage : {0, 1}, conductance : {0, 1}]

\* the arguments of _max_active_n(varname, nlayer)
CacheArgs == [varname : {"stage", "conductance"}, nlayer : {1, 2}]

\* the content hash of the serialized file: a digest, different for
\* different contents
FileHash(content) == content.stage * 2 + content.conductance + 17

\* what the package without cache computes: Package._max_active_n
max_n(content, args) ==
    IF args.varname = "stage" THEN content.stage * args.nlayer
    ELSE content.conductance * args.nlayer

\* a slip: the lookup goes by the arguments alone
cache_lookup_args_only(store, contentHash, args) ==
    IF \E e \in store : e.args = args
    THEN Returned((CHOOSE e \in store : e.args = args).value)
    ELSE None

\* cache_lookup(contentHash, argsHash) -> Option<Result>
cache_lookup(store, contentHash, args) ==
    IF \E e \in store : e.hash = contentHash /\ e.args = args
    THEN Returned((CHOOSE e \in store : e.hash = contentHash /\ e.args = args).value)
    ELSE None

\* cached_package._max_active_n(varname, nlayer): the value, whether the
\* computation ran, and the cache after the call
cached_max_active_n(pkg, store, args) ==
    LET hit == cache_lookup(store, pkg.filehash, args) IN
    IF hit.ok
    THEN [value |-> hit.value, computed |-> FALSE, store |-> store]
    ELSE LET v == max_n(pkg.content, args)
         IN  [value |-> v, computed |-> TRUE,
              store |-> store \cup {[hash |-> pkg.filehash, args |-> args,
                                     value |-> v]}]

InitCache ==
    /\ cache_file \in {Returned(c) : c \in FileContents}
    /\ cache_pkg = None
    /\ cache_store = {}
    /\ cache_log = <<>>
    /\ times = <<>>
    /\ CodecIdle /\ ParseIdle /\ TimeIdle /\ PeriodIdle /\ ModelIdle /\ GroupIdle
    /\ SimIdle

CacheOthersUnchanged ==
    UNCHANGED <<times, codec_vars, parse_vars, time_vars, period_vars,
                model_vars, group_vars, sim_vars>>

\* package.to_netcdf(path) with a changed content, no object holding the file
ToNetcdf ==
    /\ cache_pkg = None
    /\ \E c \in FileContents :
          /\ Returned(c) # cache_file
          /\ cache_file' = Returned(c)
    /\ UNCHANGED <<cache_pkg, cache_store, cache_log>>
    /\ CacheOthersUnchanged

\* cached = Package.from_file(path, cache, 2)
FromFile ==
    /\ cache_pkg = None
    /\ cache_pkg' = Returned([content |-> cache_file.value,
                              filehash |-> FileHash(cache_file.value)])
    /\ UNCHANGED <<cache_file, cache_store, cache_log>>
    /\ CacheOthersUnchanged

\* del cached
DelPackage ==
    /\ cache_pkg # None
    /\ cache_pkg' = None
    /\ UNCHANGED <<cache_file, cache_store, cache_log>>
    /\ CacheOthersUnchanged

\* cached._max_active_n(varname, nlayer)
MaxActiveN ==
    /\ cache_pkg # None
    /\ Len(cache_log) < MaxCacheCalls
    /\ \E args \in CacheArgs :
       \E r \in {cached_max_active_n(cache_pkg.value, cache_store, args)} :
          /\ cache_store' = r.store
          /\ cache_log' = Append(cache_log,
                                 [content |-> cache_file.value, args |-> args,
                                  value |-> r.value, computed |-> r.computed])
    /\ UNCHANGED <<cache_file, cache_pkg>>
    /\ CacheOthersUnchanged

NextCache == ToNetcdf \/ FromFile \/ DelPackage \/ MaxActiveN

SpecCache == InitCache /\ [][NextCache]_vars

\* C24: a call of _max_active_n runs the computation exactly when no earlier
\* call had the same arguments on the same file content (whichever package
\* object made it), so again after the content has changed; and every call
\* returns what the package without cache computes for the content of the
\* file at the call.
C24_CacheKeyedOnContentAndArgs ==
    \A i \in 1..Len(cache_log) :
        /\ cache_log[i].value = max_n(cache_log[i].content, cache_log[i].args)
        /\ cache_log[i].computed <=>
              ~\E j \in 1..(i - 1) :
                  /\ cache_log[j].content = cache_log[i].content
                  /\ cache_log[j].args = cache_log[i].args

\* a call that computed, the same call again that loaded, and after a change
\* of the file the same call computing again, with another value
C24_Witness ==
    /\ Len(cache_log) = 3
    /\ cache_log[1].args = cache_log[2].args
    /\ cache_log[2].args = cache_log[3].args
    /\ cache_log[1].computed /\ ~cache_log[2].computed /\ cache_log[3].computed
    /\ cache_log[3].content # cache_log[1].content
    /\ cache_log[3].value # cache_log[1].value

=============================================================================
